---------------------------- MODULE Spec2Model ----------------------------
(***************************************************************************)
(* A model of the parametric integer programming engine of isl            *)
(* (src/isl_tab_pip.c) and of its rational value library (src/isl_val.c). *)
(*                                                                         *)
(* Part 1 models isl_val.c: a value is the pair (n, d) of the struct, a    *)
(* failed call returns the NULL value.  Part 2 models the tableau, the     *)
(* context and the driver find_solutions of isl_tab_pip.c.                 *)
(***************************************************************************)
EXTENDS Integers, Sequences, FiniteSets, Bags, TLC

VARIABLES
    v1, v2,        \* isl_val.c: the two value registers of the caller
    lastOp,        \* isl_val.c: the last call: operation, operands, result
    crashed,       \* isl_val.c: an undefined operation ended the process
    bmap,          \* the basic map whose optimum is computed
    phase,         \* where the call of the solver is
    sol,           \* the solution object (struct isl_sol)
    stack,         \* the active calls of find_solutions, innermost last
    leaves,        \* the calls of sol->add so far, in order
    result,        \* what the call of the solver returned
    ub,            \* the undefined operations performed so far
    args,          \* isl_val.c: the operands a, b, c of a law that is evaluated
    out,           \* isl_val.c: what the calls of that evaluation returned
    heap,          \* isl_val.c: the value objects: n, d and reference count
    held,          \* isl_val.c: the references the caller holds
    work,          \* a tableau that is built and then made integral
    tick           \* the parity of the steps taken on that tableau

lawVars == <<args, out>>

cowVars == <<heap, held>>

valVars == <<v1, v2, lastOp, crashed, args, out, heap, held>>

pipVars == <<bmap, phase, sol, stack, leaves, result, ub, work, tick>>

vars == <<v1, v2, lastOp, crashed, bmap, phase, sol, stack, leaves, result,
          ub, args, out, heap, held, work, tick>>

(***************************************************************************)
(* Bounds of the model.                                                    *)
(***************************************************************************)
MaxNum == 6       \* numerators and denominators kept by the value registers
MaxUi == 2        \* unsigned long operands of the _ui variants
MaxExp == 2       \* exponents given to isl_val_2exp
MaxBezout == 2    \* absolute value of the cofactors of isl_int_gcdext

(***************************************************************************)
(* isl_int: the operations of the big-integer library that isl_val.c and   *)
(* isl_tab_pip.c use.                                                      *)
(***************************************************************************)
isl_int_abs(a) == IF a < 0 THEN -a ELSE a

isl_int_sgn(a) == IF a < 0 THEN -1 ELSE IF a = 0 THEN 0 ELSE 1

\* floor division, b # 0
isl_int_fdiv_q(a, b) == IF b > 0 THEN a \div b ELSE (-a) \div (-b)

\* the remainder of floor division, b # 0
isl_int_fdiv_r(a, b) == a - b * isl_int_fdiv_q(a, b)

\* ceiling division, b # 0
isl_int_cdiv_q(a, b) == -isl_int_fdiv_q(-a, b)

\* division truncating towards zero, b # 0
isl_int_tdiv_q(a, b) ==
    isl_int_sgn(a) * isl_int_sgn(b) * (isl_int_abs(a) \div isl_int_abs(b))

RECURSIVE GcdNat(_, _)
GcdNat(a, b) == IF b = 0 THEN a ELSE GcdNat(b, a % b)

\* the non-negative greatest common divisor; gcd(0, 0) = 0
isl_int_gcd(a, b) == GcdNat(isl_int_abs(a), isl_int_abs(b))

\* isl_int_gcdext(g, x, y, a, b) of the big-integer layer: g is the
\* non-negative greatest common divisor and x, y are integers with
\* x * a + y * b = g.  Which of these pairs the library returns is its
\* choice: the set of the results it can give, with x and y up to MaxBezout.
isl_int_gcdext(a, b) ==
    {[g |-> isl_int_gcd(a, b), x |-> p[1], y |-> p[2]] :
        p \in {q \in (-MaxBezout..MaxBezout) \X (-MaxBezout..MaxBezout) :
                  q[1] * a + q[2] * b = isl_int_gcd(a, b)}}

isl_int_is_divisible_by(a, b) ==
    IF b = 0 THEN a = 0 ELSE isl_int_fdiv_r(a, b) = 0

RECURSIVE Pow2(_)
Pow2(e) == IF e = 0 THEN 1 ELSE 2 * Pow2(e - 1)

(***************************************************************************)
(* isl_val: struct isl_val { n, d }; NULL is the result of a failed call.  *)
(***************************************************************************)
Val(n, d) == [n |-> n, d |-> d, null |-> FALSE]

NULL == [n |-> 0, d |-> 0, null |-> TRUE]

isl_val_nan == Val(0, 0)

isl_val_infty == Val(1, 0)

isl_val_neginfty == Val(-1, 0)

isl_val_int_from_si(i) == Val(i, 1)

isl_val_zero == isl_val_int_from_si(0)

isl_val_one == isl_val_int_from_si(1)

isl_val_is_int(v) == v.d = 1

isl_val_is_rat(v) == v.d # 0

isl_val_is_nan(v) == v.n = 0 /\ v.d = 0

isl_val_is_infty(v) == v.n > 0 /\ v.d = 0

isl_val_is_neginfty(v) == v.n < 0 /\ v.d = 0

isl_val_is_zero(v) == v.n = 0 /\ v.d # 0

isl_val_is_one(v) == v.n = v.d

isl_val_is_pos(v) == v.n > 0

isl_val_is_neg(v) == v.n < 0

isl_val_is_nonneg(v) == IF isl_val_is_nan(v) THEN FALSE ELSE v.n >= 0

isl_val_eq(a, b) ==
    IF isl_val_is_nan(a) \/ isl_val_is_nan(b) THEN FALSE
    ELSE a.n = b.n /\ a.d = b.d

isl_val_lt(a, b) ==
    IF isl_val_is_int(a) /\ isl_val_is_int(b) THEN a.n < b.n
    ELSE IF isl_val_is_nan(a) \/ isl_val_is_nan(b) THEN FALSE
    ELSE IF isl_val_eq(a, b) THEN FALSE
    ELSE IF isl_val_is_infty(b) THEN TRUE
    ELSE IF isl_val_is_infty(a) THEN FALSE
    ELSE IF isl_val_is_neginfty(a) THEN TRUE
    ELSE IF isl_val_is_neginfty(b) THEN FALSE
    ELSE a.n * b.d - b.n * a.d < 0

isl_val_le(a, b) ==
    IF isl_val_is_int(a) /\ isl_val_is_int(b) THEN a.n <= b.n
    ELSE IF isl_val_is_nan(a) \/ isl_val_is_nan(b) THEN FALSE
    ELSE IF isl_val_eq(a, b) THEN TRUE
    ELSE IF isl_val_is_infty(b) THEN TRUE
    ELSE IF isl_val_is_infty(a) THEN FALSE
    ELSE IF isl_val_is_neginfty(a) THEN TRUE
    ELSE IF isl_val_is_neginfty(b) THEN FALSE
    ELSE a.n * b.d - b.n * a.d <= 0

isl_val_set_nan(v) == IF v.null THEN NULL ELSE isl_val_nan

isl_val_set_si(v, i) == IF v.null THEN NULL ELSE Val(i, 1)

isl_val_set_zero(v) == isl_val_set_si(v, 0)

\* isl_val_normalize with the division by the gcd left out
isl_val_normalize_nogcd(v) ==
    IF v.null THEN NULL
    ELSE IF isl_val_is_int(v) THEN v
    ELSE IF ~isl_val_is_rat(v) THEN v
    ELSE IF v.d < 0 THEN Val(-v.n, -v.d) ELSE v

isl_val_normalize(v) ==
    IF v.null THEN NULL
    ELSE IF isl_val_is_int(v) THEN v
    ELSE IF ~isl_val_is_rat(v) THEN v
    ELSE LET w == IF v.d < 0 THEN Val(-v.n, -v.d) ELSE v
             g == isl_int_gcd(w.n, w.d)
         IN  IF g = 1 THEN w ELSE Val(w.n \div g, w.d \div g)

isl_val_neg(v) ==
    IF v.null THEN NULL
    ELSE IF isl_val_is_nan(v) THEN v
    ELSE IF isl_val_is_zero(v) THEN v
    ELSE Val(-v.n, v.d)

isl_val_abs(v) ==
    IF v.null THEN NULL
    ELSE IF isl_val_is_nan(v) THEN v
    ELSE IF isl_val_is_nonneg(v) THEN v
    ELSE isl_val_neg(v)

\* isl_val_floor that rounds towards zero
isl_val_floor_tdiv(v) ==
    IF v.null THEN NULL
    ELSE IF isl_val_is_int(v) THEN v
    ELSE IF ~isl_val_is_rat(v) THEN v
    ELSE Val(isl_int_tdiv_q(v.n, v.d), 1)

isl_val_floor(v) ==
    IF v.null THEN NULL
    ELSE IF isl_val_is_int(v) THEN v
    ELSE IF ~isl_val_is_rat(v) THEN v
    ELSE Val(isl_int_fdiv_q(v.n, v.d), 1)

isl_val_ceil(v) ==
    IF v.null THEN NULL
    ELSE IF isl_val_is_int(v) THEN v
    ELSE IF ~isl_val_is_rat(v) THEN v
    ELSE Val(isl_int_cdiv_q(v.n, v.d), 1)

isl_val_trunc(v) ==
    IF v.null THEN NULL
    ELSE IF isl_val_is_int(v) THEN v
    ELSE IF ~isl_val_is_rat(v) THEN v
    ELSE Val(isl_int_tdiv_q(v.n, v.d), 1)

\* every exponent of the model fits an unsigned long
isl_val_2exp(v) ==
    IF v.null THEN NULL
    ELSE IF ~isl_val_is_int(v) THEN NULL
    ELSE IF isl_val_is_neg(v) THEN Val(1, v.d * Pow2(-v.n))
    ELSE Val(v.d * Pow2(v.n), v.d)

\* isl_val_add returning the other operand when the first one is NaN
isl_val_add_wrong_nan(a, b) ==
    IF a.null \/ b.null THEN NULL
    ELSE IF isl_val_is_nan(a) THEN b
    ELSE IF isl_val_is_nan(b) THEN a
    ELSE Val(a.n * b.d + b.n * a.d, a.d * b.d)

isl_val_add(a, b) ==
    IF a.null \/ b.null THEN NULL
    ELSE IF isl_val_is_nan(a) THEN a
    ELSE IF isl_val_is_nan(b) THEN b
    ELSE IF (isl_val_is_infty(a) /\ isl_val_is_neginfty(b))
            \/ (isl_val_is_neginfty(a) /\ isl_val_is_infty(b))
         THEN isl_val_set_nan(a)
    ELSE IF isl_val_is_infty(a) \/ isl_val_is_neginfty(a) THEN a
    ELSE IF isl_val_is_infty(b) \/ isl_val_is_neginfty(b) THEN b
    ELSE IF isl_val_is_zero(a) THEN b
    ELSE IF isl_val_is_zero(b) THEN a
    ELSE IF isl_val_is_int(a) /\ isl_val_is_int(b) THEN Val(a.n + b.n, a.d)
    ELSE IF a.d = b.d THEN isl_val_normalize(Val(a.n + b.n, a.d))
    ELSE isl_val_normalize(Val(a.n * b.d + b.n * a.d, a.d * b.d))

isl_val_add_ui(a, u) ==
    IF a.null THEN NULL
    ELSE IF ~isl_val_is_rat(a) THEN a
    ELSE IF u = 0 THEN a
    ELSE Val(a.n + a.d * u, a.d)

isl_val_sub(a, b) ==
    IF a.null \/ b.null THEN NULL
    ELSE IF isl_val_is_nan(a) THEN a
    ELSE IF isl_val_is_nan(b) THEN b
    ELSE IF (isl_val_is_infty(a) /\ isl_val_is_infty(b))
            \/ (isl_val_is_neginfty(a) /\ isl_val_is_neginfty(b))
         THEN isl_val_set_nan(a)
    ELSE IF isl_val_is_infty(a) \/ isl_val_is_neginfty(a) THEN a
    ELSE IF isl_val_is_infty(b) \/ isl_val_is_neginfty(b) THEN isl_val_neg(b)
    ELSE IF isl_val_is_zero(b) THEN a
    ELSE IF isl_val_is_zero(a) THEN isl_val_neg(b)
    ELSE IF isl_val_is_int(a) /\ isl_val_is_int(b) THEN Val(a.n - b.n, a.d)
    ELSE IF a.d = b.d THEN isl_val_normalize(Val(a.n - b.n, a.d))
    ELSE isl_val_normalize(Val(a.n * b.d - b.n * a.d, a.d * b.d))

isl_val_sub_ui(a, u) ==
    IF a.null THEN NULL
    ELSE IF ~isl_val_is_rat(a) THEN a
    ELSE IF u = 0 THEN a
    ELSE Val(a.n - a.d * u, a.d)

\* isl_val_mul that keeps the sign of an infinite second operand
isl_val_mul_nosign(a, b) ==
    IF a.null \/ b.null THEN NULL
    ELSE IF isl_val_is_nan(a) THEN a
    ELSE IF isl_val_is_nan(b) THEN b
    ELSE IF (~isl_val_is_rat(a) /\ isl_val_is_zero(b))
            \/ (isl_val_is_zero(a) /\ ~isl_val_is_rat(b))
         THEN isl_val_set_nan(a)
    ELSE IF isl_val_is_zero(a) THEN a
    ELSE IF isl_val_is_zero(b) THEN b
    ELSE IF isl_val_is_infty(a) \/ isl_val_is_neginfty(a)
         THEN (IF isl_val_is_neg(b) THEN isl_val_neg(a) ELSE a)
    ELSE IF isl_val_is_infty(b) \/ isl_val_is_neginfty(b) THEN b
    ELSE IF isl_val_is_int(a) /\ isl_val_is_int(b) THEN Val(a.n * b.n, a.d)
    ELSE isl_val_normalize(Val(a.n * b.n, a.d * b.d))

isl_val_mul(a, b) ==
    IF a.null \/ b.null THEN NULL
    ELSE IF isl_val_is_nan(a) THEN a
    ELSE IF isl_val_is_nan(b) THEN b
    ELSE IF (~isl_val_is_rat(a) /\ isl_val_is_zero(b))
            \/ (isl_val_is_zero(a) /\ ~isl_val_is_rat(b))
         THEN isl_val_set_nan(a)
    ELSE IF isl_val_is_zero(a) THEN a
    ELSE IF isl_val_is_zero(b) THEN b
    ELSE IF isl_val_is_infty(a) \/ isl_val_is_neginfty(a)
         THEN (IF isl_val_is_neg(b) THEN isl_val_neg(a) ELSE a)
    ELSE IF isl_val_is_infty(b) \/ isl_val_is_neginfty(b)
         THEN (IF isl_val_is_neg(a) THEN isl_val_neg(b) ELSE b)
    ELSE IF isl_val_is_int(a) /\ isl_val_is_int(b) THEN Val(a.n * b.n, a.d)
    ELSE isl_val_normalize(Val(a.n * b.n, a.d * b.d))

isl_val_mul_ui(a, u) ==
    IF a.null THEN NULL
    ELSE IF isl_val_is_nan(a) THEN a
    ELSE IF ~isl_val_is_rat(a) THEN (IF u = 0 THEN isl_val_set_nan(a) ELSE a)
    ELSE IF u = 1 THEN a
    ELSE isl_val_normalize(Val(a.n * u, a.d))

\* isl_val_div with the final isl_val_normalize left out
isl_val_div_nonorm(a, b) ==
    IF a.null \/ b.null THEN NULL
    ELSE IF isl_val_is_nan(a) THEN a
    ELSE IF isl_val_is_nan(b) THEN b
    ELSE IF isl_val_is_zero(b) \/ (~isl_val_is_rat(a) /\ ~isl_val_is_rat(b))
         THEN isl_val_set_nan(a)
    ELSE IF isl_val_is_zero(a) THEN a
    ELSE IF isl_val_is_infty(a) \/ isl_val_is_neginfty(a)
         THEN (IF isl_val_is_neg(b) THEN isl_val_neg(a) ELSE a)
    ELSE IF isl_val_is_infty(b) \/ isl_val_is_neginfty(b)
         THEN isl_val_set_zero(a)
    ELSE IF isl_val_is_int(b) THEN Val(a.n, a.d * b.n)
    ELSE Val(a.n * b.d, a.d * b.n)

\* isl_val_div that takes the quotient of a number by zero to be infinite
isl_val_div_zero_infty(a, b) ==
    IF ~a.null /\ ~b.null /\ isl_val_is_rat(a) /\ ~isl_val_is_zero(a)
       /\ isl_val_is_zero(b)
    THEN (IF isl_val_is_neg(a) THEN isl_val_neginfty ELSE isl_val_infty)
    ELSE isl_val_normalize(isl_val_div_nonorm(a, b))

isl_val_div(a, b) ==
    IF a.null \/ b.null THEN NULL
    ELSE IF isl_val_is_nan(a) THEN a
    ELSE IF isl_val_is_nan(b) THEN b
    ELSE IF isl_val_is_zero(b) \/ (~isl_val_is_rat(a) /\ ~isl_val_is_rat(b))
         THEN isl_val_set_nan(a)
    ELSE IF isl_val_is_zero(a) THEN a
    ELSE IF isl_val_is_infty(a) \/ isl_val_is_neginfty(a)
         THEN (IF isl_val_is_neg(b) THEN isl_val_neg(a) ELSE a)
    ELSE IF isl_val_is_infty(b) \/ isl_val_is_neginfty(b)
         THEN isl_val_set_zero(a)
    ELSE IF isl_val_is_int(b) THEN isl_val_normalize(Val(a.n, a.d * b.n))
    ELSE isl_val_normalize(Val(a.n * b.d, a.d * b.n))

\* isl_val_mod divides by v2->n without testing it: for v2 = 0 the
\* big-integer division is undefined, the process ends ("crash") or the
\* call returns an integer the library left in v1->n.
isl_val_mod_undefined(a, b) ==
    ~a.null /\ ~b.null /\ isl_val_is_int(a) /\ isl_val_is_int(b)
    /\ ~(isl_val_is_nonneg(a) /\ isl_val_lt(a, b)) /\ b.n = 0

isl_val_mod(a, b) ==
    IF a.null \/ b.null THEN NULL
    ELSE IF ~isl_val_is_int(a) \/ ~isl_val_is_int(b) THEN NULL
    ELSE IF isl_val_is_nonneg(a) /\ isl_val_lt(a, b) THEN a
    ELSE Val(isl_int_fdiv_r(a.n, b.n), a.d)

isl_val_gcd(a, b) ==
    IF a.null \/ b.null THEN NULL
    ELSE IF ~isl_val_is_int(a) \/ ~isl_val_is_int(b) THEN NULL
    ELSE IF isl_val_eq(a, b) THEN a
    ELSE IF isl_val_is_one(a) THEN a
    ELSE IF isl_val_is_one(b) THEN b
    ELSE Val(isl_int_gcd(a.n, b.n), a.d)

\* isl_val_gcdext(v1, v2, &x, &y) when the big-integer layer returns e
isl_val_gcdext(a, b, e) ==
    IF a.null \/ b.null THEN [g |-> NULL, x |-> NULL, y |-> NULL]
    ELSE IF ~isl_val_is_int(a) \/ ~isl_val_is_int(b)
    THEN [g |-> NULL, x |-> NULL, y |-> NULL]
    ELSE [g |-> Val(e.g, a.d), x |-> Val(e.x, 1), y |-> Val(e.y, 1)]

(***************************************************************************)
(* Part 2: isl_tab_pip.c.                                                  *)
(*                                                                         *)
(* Indices (rows, columns, variables, constraints, vector positions) count *)
(* from 0 as in the C code; At and Upd read and write a sequence at such   *)
(* an index.                                                               *)
(***************************************************************************)
At(s, i) == s[i + 1]

\* Bind(e, F) names the value e once for the expression F: F(e).
Bind(e, F(_)) == F(e)

Upd(s, i, x) == [k \in 1..Len(s) |-> IF k = i + 1 THEN x ELSE s[k]]

Swp(s, i, j) ==
    [k \in 1..Len(s) |->
        IF k = i + 1 THEN s[j + 1] ELSE IF k = j + 1 THEN s[i + 1] ELSE s[k]]

DropLast(s) == SubSeq(s, 1, Len(s) - 1)

Zeros(n) == [i \in 1..n |-> 0]

RECURSIVE SeqGcdFrom(_, _)
SeqGcdFrom(s, i) ==
    IF i > Len(s) THEN 0 ELSE isl_int_gcd(s[i], SeqGcdFrom(s, i + 1))

\* isl_seq_gcd: the gcd of the elements of s
isl_seq_gcd(s) == SeqGcdFrom(s, 1)

isl_seq_neg(s) == [i \in 1..Len(s) |-> -s[i]]

isl_seq_scale_down(s, g) == [i \in 1..Len(s) |-> s[i] \div g]

RECURSIVE InnerFrom(_, _, _, _)
InnerFrom(a, b, i, n) ==
    IF i > n THEN 0 ELSE a[i] * b[i] + InnerFrom(a, b, i + 1, n)

\* isl_seq_inner_product over the first n elements
isl_seq_inner_product(a, b, n) == InnerFrom(a, b, 1, n)

\* isl_seq_first_non_zero over s[from .. from + n - 1] (0-based), -1 if none
isl_seq_first_non_zero(s, from, n) ==
    LET nz == {i \in 0..(n - 1) : At(s, from + i) # 0}
    IN  IF nz = {} THEN -1 ELSE CHOOSE i \in nz : \A j \in nz : i <= j

\* isl_vec_normalize: divide a vector by the gcd of its elements
isl_vec_normalize(v) ==
    LET g == isl_seq_gcd(v)
    IN  IF g = 0 \/ g = 1 THEN v ELSE isl_seq_scale_down(v, g)

(***************************************************************************)
(* struct isl_tab.  A row of tab->mat is the record (d, c, m, a): the      *)
(* denominator row[0], the constant row[1], the coefficient row[2] of the  *)
(* big parameter (read only when tab->M is set) and the column             *)
(* coefficients row[off + j].  enum isl_tab_row_sign is 0 (unknown),       *)
(* 1 (pos), 2 (neg), 3 (any).                                              *)
(***************************************************************************)
isl_tab_row_unknown == 0

isl_tab_row_pos == 1

isl_tab_row_neg == 2

isl_tab_row_any == 3

TabVar(is_row, index) ==
    [is_row |-> is_row, index |-> index, is_nonneg |-> FALSE,
     is_zero |-> FALSE, is_redundant |-> FALSE, frozen |-> FALSE]

NoBset ==
    [n_div |-> 0, eq |-> <<>>, ineq |-> <<>>, div |-> <<>>, empty |-> FALSE]

\* isl_tab_alloc: a tableau over n_var variables, each in its own column
isl_tab_alloc(n_var, M) ==
    [null |-> FALSE, M |-> M, rational |-> FALSE, empty |-> FALSE,
     need_undo |-> FALSE,
     n_var |-> n_var, n_param |-> 0, n_div |-> 0, n_con |-> 0,
     n_row |-> 0, n_col |-> n_var, n_dead |-> 0, n_redundant |-> 0,
     n_eq |-> 0,
     mat |-> <<>>,
     var |-> [i \in 1..n_var |-> TabVar(FALSE, i - 1)],
     con |-> <<>>,
     row_var |-> <<>>,
     col_var |-> [i \in 1..n_var |-> i - 1],
     has_row_sign |-> FALSE, row_sign |-> <<>>,
     has_bset |-> FALSE, bset |-> NoBset,
     samples |-> <<>>, n_sample |-> 0, n_outside |-> 0]

\* the result of a tableau operation that failed (the tableau is freed)
NullTab == [isl_tab_alloc(0, 0) EXCEPT !.null = TRUE]

\* a variable (index >= 0) or a constraint (index ~c < 0) of the tableau
VarOf(tab, i) == IF i >= 0 THEN At(tab.var, i) ELSE At(tab.con, -i - 1)

SetVarOf(tab, i, x) ==
    IF i >= 0 THEN [tab EXCEPT !.var = Upd(tab.var, i, x)]
    ELSE [tab EXCEPT !.con = Upd(tab.con, -i - 1, x)]

isl_tab_var_from_row(tab, row) == VarOf(tab, At(tab.row_var, row))

var_from_col(tab, col) == VarOf(tab, At(tab.col_var, col))

\* does column col hold a parameter or a div of the context
IsParamCol(tab, col) ==
    /\ At(tab.col_var, col) >= 0
    /\ \/ At(tab.col_var, col) < tab.n_param
       \/ At(tab.col_var, col) >= tab.n_var - tab.n_div

\* isl_seq_normalize on a row: divide it by the gcd of its elements
NormalizeRow(tab, r) ==
    LET g == isl_int_gcd(isl_int_gcd(r.d, r.c),
                         isl_int_gcd(IF tab.M = 1 THEN r.m ELSE 0,
                                     isl_seq_gcd(r.a)))
    IN  IF g = 0 \/ g = 1 THEN r
        ELSE [d |-> r.d \div g, c |-> r.c \div g, m |-> r.m \div g,
              a |-> isl_seq_scale_down(r.a, g)]

\* isl_seq_combine(m1 * r1 + m2 * r2) on the elements after the denominator
CombineRows(m1, r1, m2, r2, d) ==
    [d |-> d, c |-> m1 * r1.c + m2 * r2.c, m |-> m1 * r1.m + m2 * r2.m,
     a |-> [j \in 1..Len(r1.a) |-> m1 * r1.a[j] + m2 * r2.a[j]]]

(***************************************************************************)
(* Tableau primitives of isl_tab.c (section 4.2 of the specification).     *)
(***************************************************************************)
\* isl_tab_allocate_con: a new constraint in a new, last row
isl_tab_allocate_con(tab) ==
    [tab EXCEPT !.con = Append(tab.con, TabVar(TRUE, tab.n_row)),
                !.row_var = Append(tab.row_var, -(tab.n_con) - 1),
                !.mat = Append(tab.mat,
                               [d |-> 1, c |-> 0, m |-> 0,
                                a |-> Zeros(tab.n_col)]),
                !.row_sign = Append(tab.row_sign, isl_tab_row_unknown),
                !.n_row = tab.n_row + 1,
                !.n_con = tab.n_con + 1]

\* isl_tab_allocate_var: a new variable in a new, last column
isl_tab_allocate_var(tab) ==
    [tab EXCEPT !.var = Append(tab.var, TabVar(FALSE, tab.n_col)),
                !.col_var = Append(tab.col_var, tab.n_var),
                !.mat = [i \in 1..Len(tab.mat) |->
                            [tab.mat[i] EXCEPT !.a = Append(@, 0)]],
                !.n_var = tab.n_var + 1,
                !.n_col = tab.n_col + 1]

\* the row of line[0] + sum_i line[1 + i] * var_i in the current basis,
\* built one variable at a time as isl_tab_add_row does
RECURSIVE AddRowFrom(_, _, _, _)
AddRowFrom(tab, line, row, i) ==
    IF i >= tab.n_var THEN row
    ELSE LET v == At(tab.var, i)
             k == At(line, 1 + i) IN
              Bind(IF v.is_zero THEN row
                   ELSE IF v.is_row
                   THEN LET vr == At(tab.mat, v.index) IN
                            Bind((row.d * vr.d) \div isl_int_gcd(row.d, vr.d), LAMBDA l :
                            CombineRows(l \div row.d, row,
                                        (l \div vr.d) * k, vr, l))
                   ELSE [row EXCEPT !.a = Upd(@, v.index,
                                              At(@, v.index) + k * row.d)], LAMBDA r1 :
         LET r2 == IF /\ ~v.is_zero
                      /\ tab.M = 1
                      /\ i >= tab.n_param
                      /\ i < tab.n_var - tab.n_div
                   THEN [r1 EXCEPT !.m = @ - k * r1.d]
                   ELSE r1
         IN  AddRowFrom(tab, line, r2, i + 1))

\* isl_tab_add_row: the new constraint is con[n_con - 1] of the result
isl_tab_add_row(tab, line) ==
        Bind(isl_tab_allocate_con(tab), LAMBDA t :
    LET row0 == [d |-> 1, c |-> At(line, 0), m |-> 0, a |-> Zeros(t.n_col)]
        row == NormalizeRow(t, AddRowFrom(t, line, row0, 0))
    IN  [t EXCEPT !.mat = Upd(t.mat, t.n_row - 1, row)])

\* update_row_sign of isl_tab.c: after a pivot on a row known to be
\* negative the row is positive, and the other rows keep a known sign only
\* if the pivot cannot have changed it
update_row_sign(tab, row, col, sgn) ==
    IF \/ ~tab.has_row_sign
       \/ At(tab.row_sign, row) = isl_tab_row_unknown
       \/ sgn <= 0
       \/ At(tab.row_sign, row) # isl_tab_row_neg
    THEN tab
    ELSE [tab EXCEPT !.row_sign =
            [i \in 1..Len(tab.row_sign) |->
                LET s == isl_int_sgn(At(tab.mat[i].a, col)) IN
                     Bind(tab.row_sign[i], LAMBDA rs :
                    IF i - 1 = row THEN isl_tab_row_pos
                    ELSE IF s = 0 \/ rs = isl_tab_row_unknown THEN rs
                    ELSE IF s < 0 /\ rs = isl_tab_row_neg THEN rs
                    ELSE IF s > 0 /\ rs = isl_tab_row_pos THEN rs
                    ELSE isl_tab_row_unknown)]]

\* isl_tab_pivot: the variable of column col enters the basis in row row
isl_tab_pivot(tab, row, col) ==
    LET old == At(tab.mat, row)
        sgn == isl_int_sgn(At(old.a, col)) IN
          Bind(NormalizeRow(tab,
                 IF sgn < 0
                 THEN [d |-> -At(old.a, col), c |-> old.c, m |-> old.m,
                       a |-> Upd(old.a, col, -old.d)]
                 ELSE [d |-> At(old.a, col), c |-> -old.c, m |-> -old.m,
                       a |-> Upd(isl_seq_neg(old.a), col, old.d)]), LAMBDA piv :
    LET other(r) ==
            IF At(r.a, col) = 0 THEN r
            ELSE NormalizeRow(tab,
                   [d |-> r.d * piv.d,
                    c |-> r.c * piv.d + At(r.a, col) * piv.c,
                    m |-> r.m * piv.d + At(r.a, col) * piv.m,
                    a |-> [j \in 1..Len(r.a) |->
                             IF j - 1 = col THEN r.a[j] * piv.a[j]
                             ELSE r.a[j] * piv.d + At(r.a, col) * piv.a[j]]])
        mat == [i \in 1..Len(tab.mat) |->
                   IF i - 1 = row THEN piv ELSE other(tab.mat[i])]
        rv == At(tab.row_var, row)
        cv == At(tab.col_var, col) IN
         Bind([tab EXCEPT !.mat = mat,
                          !.row_var = Upd(tab.row_var, row, cv),
                          !.col_var = Upd(tab.col_var, col, rv)], LAMBDA t1 :
         Bind(SetVarOf(t1, cv, [VarOf(t1, cv) EXCEPT !.is_row = TRUE,
                                                     !.index = row]), LAMBDA t2 :
    LET t3 == SetVarOf(t2, rv, [VarOf(t2, rv) EXCEPT !.is_row = FALSE,
                                                     !.index = col])
    IN  update_row_sign(t3, row, col, sgn))))

\* swap_rows of isl_tab.c
swap_rows(tab, row1, row2) ==
    LET v1r == At(tab.row_var, row1)
        v2r == At(tab.row_var, row2) IN
         Bind([tab EXCEPT !.row_var = Swp(tab.row_var, row1, row2),
                          !.mat = Swp(tab.mat, row1, row2),
                          !.row_sign = Swp(tab.row_sign, row1, row2)], LAMBDA t1 :
         Bind(SetVarOf(t1, v2r, [VarOf(t1, v2r) EXCEPT !.index = row1]), LAMBDA t2 :
        SetVarOf(t2, v1r, [VarOf(t2, v1r) EXCEPT !.index = row2])))

\* swap_cols of isl_tab.c
swap_cols(tab, col1, col2) ==
    LET v1c == At(tab.col_var, col1)
        v2c == At(tab.col_var, col2) IN
         Bind([tab EXCEPT !.col_var = Swp(tab.col_var, col1, col2),
                          !.mat = [i \in 1..Len(tab.mat) |->
                                     [tab.mat[i] EXCEPT
                                        !.a = Swp(@, col1, col2)]]], LAMBDA t1 :
         Bind(SetVarOf(t1, v2c, [VarOf(t1, v2c) EXCEPT !.index = col1]), LAMBDA t2 :
        SetVarOf(t2, v1c, [VarOf(t2, v1c) EXCEPT !.index = col2])))

\* isl_tab_row_is_redundant: the row is a non-negative combination of
\* non-negative constraints
isl_tab_row_is_redundant(tab, row) ==
    LET r == At(tab.mat, row)
    IN  /\ ~(At(tab.row_var, row) < 0
             /\ ~isl_tab_var_from_row(tab, row).is_nonneg)
        /\ r.c >= 0
        /\ ~(tab.M = 1 /\ r.m < 0)
        /\ \A i \in tab.n_dead..(tab.n_col - 1) :
              At(r.a, i) # 0 =>
                 /\ At(tab.col_var, i) < 0
                 /\ At(r.a, i) > 0
                 /\ var_from_col(tab, i).is_nonneg

\* drop the last row of the tableau
DropLastRow(tab) ==
    LET v == At(tab.row_var, tab.n_row - 1) IN
        Bind(SetVarOf(tab, v, [VarOf(tab, v) EXCEPT !.index = -1]), LAMBDA t :
        [t EXCEPT !.mat = DropLast(t.mat),
                  !.row_var = DropLast(t.row_var),
                  !.row_sign = DropLast(t.row_sign),
                  !.n_row = t.n_row - 1])

\* isl_tab_mark_redundant: the row moves to the redundant rows, or is
\* dropped when it is a constraint of a tableau that keeps no undo records
isl_tab_mark_redundant(tab, row) ==
    LET v == At(tab.row_var, row) IN
         Bind(SetVarOf(tab, v, [VarOf(tab, v) EXCEPT !.is_redundant = TRUE]), LAMBDA t0 :
        IF tab.need_undo \/ v >= 0
        THEN      Bind(IF v >= 0
                       THEN SetVarOf(t0, v,
                                [VarOf(t0, v) EXCEPT !.is_nonneg = TRUE])
                       ELSE t0, LAMBDA t1 :
                  Bind(IF row # t1.n_redundant
                       THEN swap_rows(t1, row, t1.n_redundant)
                       ELSE t1, LAMBDA t2 :
                 [t2 EXCEPT !.n_redundant = t2.n_redundant + 1]))
        ELSE DropLastRow(IF row # t0.n_row - 1
                         THEN swap_rows(t0, row, t0.n_row - 1)
                         ELSE t0))

\* isl_tab_kill_col: the column's variable is zero; the column moves to the
\* dead columns, or is dropped when the tableau keeps no undo records
isl_tab_kill_col(tab, col) ==
    LET v == At(tab.col_var, col) IN
         Bind(SetVarOf(tab, v, [VarOf(tab, v) EXCEPT !.is_zero = TRUE]), LAMBDA t0 :
        IF tab.need_undo
        THEN      Bind(IF col # t0.n_dead
                       THEN swap_cols(t0, col, t0.n_dead)
                       ELSE t0, LAMBDA t1 :
                 [t1 EXCEPT !.n_dead = t1.n_dead + 1])
        ELSE      Bind(IF col # t0.n_col - 1
                       THEN swap_cols(t0, col, t0.n_col - 1)
                       ELSE t0, LAMBDA t1 :
             LET w == At(t1.col_var, t1.n_col - 1) IN
                  Bind(SetVarOf(t1, w, [VarOf(t1, w) EXCEPT !.index = -1]), LAMBDA t2 :
                 [t2 EXCEPT !.col_var = DropLast(t2.col_var),
                            !.mat = [i \in 1..Len(t2.mat) |->
                                       [t2.mat[i] EXCEPT !.a = DropLast(@)]],
                            !.n_col = t2.n_col - 1])))

\* isl_tab_mark_empty
isl_tab_mark_empty(tab) == [tab EXCEPT !.empty = TRUE]

\* isl_tab_snap: the undo records start with the first snapshot
isl_tab_snap(tab) == [tab EXCEPT !.need_undo = TRUE]

\* isl_tab_rollback to a snapshot taken with isl_tab_snap and
\* isl_tab_push_basis: the tableau and its basic set are as they were; the
\* samples found since then stay, without the columns of the divs that the
\* rollback removes, and the samples dropped since then are live again
isl_tab_rollback(tab, snap) ==
    [snap EXCEPT !.samples = [i \in 1..Len(tab.samples) |->
                                 SubSeq(tab.samples[i], 1, 1 + snap.n_var)],
                 !.n_sample = tab.n_sample]

(***************************************************************************)
(* Rational feasibility of a system of inequalities c + a.x >= 0 over n    *)
(* variables, by Fourier-Motzkin elimination of the last variable.         *)
(***************************************************************************)
RECURSIVE RatFeasible(_, _)
RatFeasible(S, n) ==
    IF n = 0 THEN \A v \in S : v[1] >= 0
    ELSE LET pos == {v \in S : v[n + 1] > 0}
             neg == {v \in S : v[n + 1] < 0}
             zer == {SubSeq(v, 1, n) : v \in {w \in S : w[n + 1] = 0}}
             comb(p, q) ==
                isl_vec_normalize([j \in 1..n |->
                                     (-q[n + 1]) * p[j] + p[n + 1] * q[j]])
         IN  RatFeasible(zer \cup {comb(p, q) : p \in pos, q \in neg}, n - 1)

\* the inequalities of a basic set, an equality counting as two
BsetIneqs(bset) ==
    {bset.ineq[i] : i \in 1..Len(bset.ineq)}
    \cup {bset.eq[i] : i \in 1..Len(bset.eq)}
    \cup {isl_seq_neg(bset.eq[i]) : i \in 1..Len(bset.eq)}

\* isl_tab_min_at_most_neg_one for the value of ineq over the context with
\* the inequalities extra added: some rational point has ineq <= -1
isl_tab_min_at_most_neg_one(tab, extra, ineq) ==
    RatFeasible(BsetIneqs(tab.bset) \cup extra
                \cup {Upd(isl_seq_neg(ineq), 0, -At(ineq, 0) - 1)},
                tab.n_var)

(***************************************************************************)
(* The lexmin engine of isl_tab_pip.c.                                     *)
(***************************************************************************)
\* the variable of the main tableau that is variable i of the context
ParamPos(tab, i) ==
    IF i < tab.n_param THEN i ELSE tab.n_var - tab.n_div + i - tab.n_param

\* the coefficient of the i-th context variable in a row, 0 if eliminated
ParamCoef(tab, row, i) ==
    LET v == At(tab.var, ParamPos(tab, i))
    IN  IF v.is_row THEN 0 ELSE At(At(tab.mat, row).a, v.index)

get_row_parameter_line(tab, row) ==
    [k \in 1..(1 + tab.n_param + tab.n_div) |->
        IF k = 1 THEN At(tab.mat, row).c ELSE ParamCoef(tab, row, k - 2)]

\* identical_parameter_line without the test of the coefficients of the
\* big parameter
identical_parameter_line_noM(tab, row1, row2) ==
    /\ At(tab.mat, row1).c = At(tab.mat, row2).c
    /\ \A i \in 0..(tab.n_param + tab.n_div - 1) :
          \/ At(tab.var, ParamPos(tab, i)).is_row
          \/ ParamCoef(tab, row1, i) = ParamCoef(tab, row2, i)

identical_parameter_line(tab, row1, row2) ==
    /\ At(tab.mat, row1).c = At(tab.mat, row2).c
    /\ ~(tab.M = 1 /\ At(tab.mat, row1).m # At(tab.mat, row2).m)
    /\ \A i \in 0..(tab.n_param + tab.n_div - 1) :
          \/ At(tab.var, ParamPos(tab, i)).is_row
          \/ ParamCoef(tab, row1, i) = ParamCoef(tab, row2, i)

get_row_parameter_ineq(tab, row) ==
    isl_vec_normalize(get_row_parameter_line(tab, row))

\* isl_seq_fdiv_r of the elements after the first by the first
FdivRTail(div) ==
    [k \in 1..Len(div) |->
        IF k = 1 THEN div[1] ELSE isl_int_fdiv_r(div[k], div[1])]

get_row_parameter_div(tab, row) ==
          Bind(isl_vec_normalize(<<At(tab.mat, row).d>>
                                 \o get_row_parameter_line(tab, row)), LAMBDA div :
        FdivRTail([k \in 1..Len(div) |-> IF k = 1 THEN div[1] ELSE -div[k]]))

get_row_split_div(tab, row) ==
    FdivRTail(isl_vec_normalize(<<At(tab.mat, row).d>>
                                \o get_row_parameter_line(tab, row)))

\* ineq_for_div: m d <= e for the div d = floor(e/m) of the basic set
ineq_for_div(bset, total, div) ==
    LET dv == At(bset.div, div)
        div_pos == 1 + total - bset.n_div + div
    IN  Upd(SubSeq(dv, 2, 2 + total), div_pos, -dv[1])

set_row_cst_to_div(tab, row, div) ==
    LET r == At(tab.mat, row) IN
        Bind(At(tab.var, tab.n_var - tab.n_div + div), LAMBDA v :
        Bind([d |-> 1, c |-> isl_int_fdiv_q(r.c, r.d),
              m |-> isl_int_fdiv_q(r.m, r.d),
              a |-> [j \in 1..Len(r.a) |-> isl_int_fdiv_q(r.a[j], r.d)]], LAMBDA q :
        IF v.is_row THEN NullTab
        ELSE [tab EXCEPT !.mat = Upd(tab.mat, row,
                                     [q EXCEPT !.a = Upd(q.a, v.index, 1)])]))

\* the parameters and divs that are not eliminated and appear in the row
RowParams(tab, row) ==
    {i \in 0..(tab.n_param + tab.n_div - 1) :
        /\ ~At(tab.var, ParamPos(tab, i)).is_row
        /\ ParamCoef(tab, row, i) # 0}

is_obviously_neg(tab, row) ==
    LET r == At(tab.mat, row)
    IN  IF tab.M = 1 /\ r.m > 0 THEN FALSE
        ELSE IF tab.M = 1 /\ r.m < 0 THEN TRUE
        ELSE /\ r.c < 0
             /\ \A i \in RowParams(tab, row) :
                   /\ At(tab.var, ParamPos(tab, i)).is_nonneg
                   /\ ParamCoef(tab, row, i) < 0

is_obviously_nonneg(tab, row) ==
    LET r == At(tab.mat, row)
    IN  IF tab.M = 1 /\ r.m > 0 THEN TRUE
        ELSE IF tab.M = 1 /\ r.m < 0 THEN FALSE
        ELSE /\ r.c >= 0
             /\ \A i \in RowParams(tab, row) :
                   /\ At(tab.var, ParamPos(tab, i)).is_nonneg
                   /\ ParamCoef(tab, row, i) > 0

RECURSIVE LexminColPairFrom(_, _, _, _, _)
LexminColPairFrom(tab, row, col1, col2, i) ==
    IF i >= tab.n_var - tab.n_div THEN -1
    ELSE LET v == At(tab.var, i)
             tr == At(tab.mat, row).a
         IN  IF ~v.is_row
             THEN IF v.index = col1 THEN col2
                  ELSE IF v.index = col2 THEN col1
                  ELSE LexminColPairFrom(tab, row, col1, col2, i + 1)
             ELSE IF v.index = row
             THEN LexminColPairFrom(tab, row, col1, col2, i + 1)
             ELSE LET r == At(tab.mat, v.index).a
                      s1 == isl_int_sgn(At(r, col1))
                      s2 == isl_int_sgn(At(r, col2)) IN
                        Bind(At(r, col2) * At(tr, col1)
                             - At(r, col1) * At(tr, col2), LAMBDA tmp :
                      IF s1 = 0 /\ s2 = 0
                      THEN LexminColPairFrom(tab, row, col1, col2, i + 1)
                      ELSE IF s1 < s2 THEN col1
                      ELSE IF s2 < s1 THEN col2
                      ELSE IF tmp > 0 THEN col1
                      ELSE IF tmp < 0 THEN col2
                      ELSE LexminColPairFrom(tab, row, col1, col2, i + 1))

\* lexmin_col_pair that looks at the variables in columns only and leaves
\* out the rows of the basic variables
lexmin_col_pair_nonbasic(tab, row, col1, col2) ==
    IF \E i \in tab.n_param..(tab.n_var - tab.n_div - 1) :
           ~At(tab.var, i).is_row /\ At(tab.var, i).index = col1
    THEN col2
    ELSE col1

lexmin_col_pair(tab, row, col1, col2) ==
    LexminColPairFrom(tab, row, col1, col2, tab.n_param)

RECURSIVE LexminPivotColFrom(_, _, _, _)
LexminPivotColFrom(tab, row, col, j) ==
    IF j >= tab.n_col THEN col
    ELSE IF IsParamCol(tab, j) \/ At(At(tab.mat, row).a, j) <= 0
    THEN LexminPivotColFrom(tab, row, col, j + 1)
    ELSE     Bind(IF col = tab.n_col THEN j
                  ELSE lexmin_col_pair(tab, row, col, j), LAMBDA c :
             IF c < 0 THEN -1 ELSE LexminPivotColFrom(tab, row, c, j + 1))

\* lexmin_pivot_col that starts its search one column too far
lexmin_pivot_col_short(tab, row) ==
    LexminPivotColFrom(tab, row, tab.n_col, tab.n_dead + 1)

\* n_col if no column is eligible, -1 if two columns cannot be told apart
lexmin_pivot_col(tab, row) ==
    LexminPivotColFrom(tab, row, tab.n_col, tab.n_dead)

\* the rows first_neg looks at
NonnegRows(tab) ==
    {row \in tab.n_redundant..(tab.n_row - 1) :
        isl_tab_var_from_row(tab, row).is_nonneg}

Least(S) == IF S = {} THEN -1 ELSE CHOOSE x \in S : \A y \in S : x <= y

\* the rows with a negative coefficient of the big parameter
FirstNegM(tab) ==
    IF tab.M = 1
    THEN Least({row \in NonnegRows(tab) : At(tab.mat, row).m < 0})
    ELSE -1

\* the rows that are known to be negative or obviously negative
FirstNegSign(tab) ==
    Least({row \in NonnegRows(tab) :
             IF tab.has_row_sign
             THEN \/ At(tab.row_sign, row) = isl_tab_row_neg
                  \/ /\ At(tab.row_sign, row) = isl_tab_row_unknown
                     /\ is_obviously_neg(tab, row)
             ELSE is_obviously_neg(tab, row)})

\* first_neg that reports no row when the tableau has a big parameter and
\* no row has a negative coefficient of it
first_neg_two_cases(tab) ==
    IF tab.M = 1 THEN FirstNegM(tab) ELSE FirstNegSign(tab)

\* the row first_neg returns, -1 if there is none
first_neg(tab) ==
    IF FirstNegM(tab) # -1 THEN FirstNegM(tab) ELSE FirstNegSign(tab)

\* the tableau first_neg leaves: the row it found obviously negative is
\* marked negative
first_neg_tab(tab) ==
    IF FirstNegM(tab) = -1 /\ FirstNegSign(tab) # -1 /\ tab.has_row_sign
    THEN [tab EXCEPT !.row_sign =
             Upd(tab.row_sign, FirstNegSign(tab), isl_tab_row_neg)]
    ELSE tab

RECURSIVE restore_lexmin(_)
restore_lexmin(tab) ==
    IF tab.null \/ tab.empty THEN tab
    ELSE       Bind(first_neg(tab), LAMBDA row :
             Bind(first_neg_tab(tab), LAMBDA t :
               Bind(IF row = -1 THEN -1 ELSE lexmin_pivot_col(t, row), LAMBDA col :
             IF row = -1 THEN t
             ELSE IF col >= t.n_col THEN isl_tab_mark_empty(t)
             ELSE IF col < 0 THEN NullTab
             ELSE restore_lexmin(isl_tab_pivot(t, row, col)))))

last_var_col_or_int_par_col(tab, row) ==
    LET r == At(tab.mat, row).a IN
            Bind({i \in tab.n_param..(tab.n_var - tab.n_div - 1) :
                     /\ ~At(tab.var, i).is_row
                     /\ At(tab.var, i).index > tab.n_dead
                     /\ At(r, At(tab.var, i).index) # 0}, LAMBDA vars1 :
    LET cols2 == {i \in tab.n_dead..(tab.n_col - 1) :
                     At(r, i) = 1 \/ At(r, i) = -1}
    IN  IF vars1 # {}
        THEN At(tab.var, CHOOSE i \in vars1 : \A j \in vars1 : j <= i).index
        ELSE Least(cols2))

SetConNonneg(tab, r) ==
    [tab EXCEPT !.con = Upd(tab.con, r, [At(tab.con, r) EXCEPT
                                            !.is_nonneg = TRUE])]

add_lexmin_valid_eq(tab, eq) ==
    IF tab.null THEN tab
    ELSE      Bind(isl_tab_add_row(tab, eq), LAMBDA t1 :
         LET r == At(t1.con, t1.n_con - 1).index IN
             Bind(last_var_col_or_int_par_col(t1, r), LAMBDA i :
             IF i < 0
             THEN      Bind(isl_tab_add_row(SetConNonneg(t1, t1.n_con - 1),
                                            isl_seq_neg(eq)), LAMBDA t2 :
                      SetConNonneg(t2, t2.n_con - 1))
             ELSE      Bind(isl_tab_kill_col(isl_tab_pivot(t1, r, i), i), LAMBDA t2 :
                      restore_lexmin([t2 EXCEPT !.n_eq = t2.n_eq + 1]))))

is_constant(tab, row) ==
    \A j \in tab.n_dead..(tab.n_col - 1) : At(At(tab.mat, row).a, j) = 0

\* isl_basic_set_add_eq on the basic set of a context tableau
BsetAddEq(tab, eq) ==
    IF tab.has_bset
    THEN [tab EXCEPT !.bset.eq = Append(@, SubSeq(eq, 1, 1 + tab.n_var))]
    ELSE tab

\* isl_basic_set_add_ineq on the basic set of a context tableau
BsetAddIneq(tab, ineq) ==
    IF tab.has_bset
    THEN [tab EXCEPT !.bset.ineq = Append(@, SubSeq(ineq, 1, 1 + tab.n_var))]
    ELSE tab

\* the end of add_lexmin_eq: use one of the two constraints r1 and r2 to
\* eliminate a column
AddLexminEqKill(tab, r1, r2) ==
    LET c1 == At(tab.con, r1)
        c2 == At(tab.con, r2) IN
         Bind({j \in tab.n_dead..(tab.n_col - 1) :
                  At(At(tab.mat, c1.index).a, j) # 0}, LAMBDA nz :
        IF ~c1.is_row THEN isl_tab_kill_col(tab, c1.index)
        ELSE IF ~c2.is_row THEN isl_tab_kill_col(tab, c2.index)
        ELSE IF At(tab.mat, c1.index).c = 0 /\ nz # {}
        THEN isl_tab_kill_col(isl_tab_pivot(tab, c1.index, Least(nz)),
                              Least(nz))
        ELSE tab)

add_lexmin_eq(tab, eq) ==
    IF tab.null THEN tab
    ELSE      Bind(isl_tab_add_row(BsetAddEq(tab, eq), eq), LAMBDA t0 :
         LET r1 == t0.n_con - 1 IN
              Bind(SetConNonneg(t0, r1), LAMBDA t1 :
         LET row == At(t1.con, r1).index IN
              Bind(restore_lexmin(t1), LAMBDA t2 :
              Bind(isl_tab_add_row(t2, isl_seq_neg(eq)), LAMBDA t3 :
         LET r2 == t3.n_con - 1 IN
              Bind(restore_lexmin(SetConNonneg(t3, r2)), LAMBDA t4 :
             IF is_constant(t1, row)
             THEN IF \/ At(t1.mat, row).c # 0
                     \/ (t1.M = 1 /\ At(t1.mat, row).m # 0)
                  THEN isl_tab_mark_empty(t1)
                  ELSE t1
             ELSE IF t2.null \/ t2.empty THEN t2
             ELSE IF t4.null \/ t4.empty THEN t4
             ELSE AddLexminEqKill(t4, r1, r2))))))

add_lexmin_ineq(tab, ineq) ==
    IF tab.null THEN tab
    ELSE      Bind(isl_tab_add_row(BsetAddIneq(tab, ineq), ineq), LAMBDA t0 :
         LET r == t0.n_con - 1 IN
              Bind(SetConNonneg(t0, r), LAMBDA t1 :
              Bind(restore_lexmin(t1), LAMBDA t2 :
             IF isl_tab_row_is_redundant(t1, At(t1.con, r).index)
             THEN isl_tab_mark_redundant(t1, At(t1.con, r).index)
             ELSE IF /\ ~t2.null
                     /\ ~t2.empty
                     /\ At(t2.con, r).is_row
                     /\ isl_tab_row_is_redundant(t2, At(t2.con, r).index)
             THEN isl_tab_mark_redundant(t2, At(t2.con, r).index)
             ELSE t2)))

integer_parameter(tab, row) ==
    \A i \in 0..(tab.n_param + tab.n_div - 1) :
        \/ At(tab.var, ParamPos(tab, i)).is_row
        \/ isl_int_is_divisible_by(ParamCoef(tab, row, i),
                                   At(tab.mat, row).d)

integer_variable(tab, row) ==
    \A i \in 0..(tab.n_col - 1) :
        \/ IsParamCol(tab, i)
        \/ isl_int_is_divisible_by(At(At(tab.mat, row).a, i),
                                   At(tab.mat, row).d)

integer_constant(tab, row) ==
    isl_int_is_divisible_by(At(tab.mat, row).c, At(tab.mat, row).d)

\* the variables whose row first_non_integer stops at
NonIntegerVars(tab) ==
    {i \in tab.n_param..(tab.n_var - tab.n_div - 1) :
        /\ At(tab.var, i).is_row
        /\ ~(/\ integer_constant(tab, At(tab.var, i).index)
             /\ integer_parameter(tab, At(tab.var, i).index))}

\* the row of the first variable that needs a cut, -1 if there is none
first_non_integer(tab) ==
    IF NonIntegerVars(tab) = {} THEN -1
    ELSE At(tab.var, Least(NonIntegerVars(tab))).index

\* the flags first_non_integer sets for the row it returns
I_CST(tab, row) == integer_constant(tab, row)

I_PAR(tab, row) == integer_parameter(tab, row)

I_VAR(tab, row) == integer_variable(tab, row)

\* add_cut with the constant of the cut left at zero: the row it adds is
\* satisfied by the sample it is meant to cut off
add_cut_zero(tab, row) ==
    LET src == At(tab.mat, row) IN
        Bind(SetConNonneg(isl_tab_allocate_con(tab), tab.n_con), LAMBDA t :
        [t EXCEPT !.mat = Upd(t.mat, t.n_row - 1,
                              [d |-> src.d,
                               c |-> 0,
                               m |-> 0,
                               a |-> [j \in 1..Len(src.a) |->
                                        isl_int_fdiv_r(src.a[j], src.d)]]),
                  !.row_sign = IF t.has_row_sign
                               THEN Upd(t.row_sign, t.n_row - 1,
                                        isl_tab_row_neg)
                               ELSE t.row_sign])

\* add_cut with the remainders of a division that truncates towards zero
add_cut_trunc(tab, row) ==
    LET src == At(tab.mat, row) IN
        Bind(SetConNonneg(isl_tab_allocate_con(tab), tab.n_con), LAMBDA t :
        [t EXCEPT !.mat = Upd(t.mat, t.n_row - 1,
                              [d |-> src.d,
                               c |-> -(-src.c - src.d *
                                          isl_int_tdiv_q(-src.c, src.d)),
                               m |-> 0,
                               a |-> [j \in 1..Len(src.a) |->
                                        src.a[j] - src.d *
                                          isl_int_tdiv_q(src.a[j], src.d)]]),
                  !.row_sign = IF t.has_row_sign
                               THEN Upd(t.row_sign, t.n_row - 1,
                                        isl_tab_row_neg)
                               ELSE t.row_sign])

\* add_cut: the cut is the last row of the result
add_cut(tab, row) ==
    LET src == At(tab.mat, row) IN
        Bind(SetConNonneg(isl_tab_allocate_con(tab), tab.n_con), LAMBDA t :
        [t EXCEPT !.mat = Upd(t.mat, t.n_row - 1,
                              [d |-> src.d,
                               c |-> -isl_int_fdiv_r(-src.c, src.d),
                               m |-> 0,
                               a |-> [j \in 1..Len(src.a) |->
                                        isl_int_fdiv_r(src.a[j], src.d)]]),
                  !.row_sign = IF t.has_row_sign
                               THEN Upd(t.row_sign, t.n_row - 1,
                                        isl_tab_row_neg)
                               ELSE t.row_sign])

RECURSIVE cut_to_integer_lexmin(_)
cut_to_integer_lexmin(tab) ==
    IF tab.null \/ tab.empty THEN tab
    ELSE       Bind(first_non_integer(tab), LAMBDA row :
             Bind(restore_lexmin(add_cut(tab, row)), LAMBDA t :
             IF row = -1 THEN tab
             ELSE IF I_VAR(tab, row) THEN isl_tab_mark_empty(tab)
             ELSE IF t.null \/ t.empty THEN t
             ELSE cut_to_integer_lexmin(t)))

(***************************************************************************)
(* The context tableau and its cache of sample points.                     *)
(***************************************************************************)
\* drop_sample without the swap of the rows: the first live sample is
\* dropped, whichever sample was meant
drop_sample_noswap(tab, s) ==
    [tab EXCEPT !.n_outside = tab.n_outside + 1]

drop_sample(tab, s) ==
    [tab EXCEPT !.samples = IF s # tab.n_outside
                            THEN Swp(tab.samples, tab.n_outside, s)
                            ELSE tab.samples,
                !.n_outside = tab.n_outside + 1]

\* does the sample satisfy the inequality (the equality if eq is set)
SampleSatisfies(tab, sample, ineq, eq) ==
          Bind(isl_int_sgn(isl_seq_inner_product(ineq, sample,
                                                 1 + tab.n_var)), LAMBDA sgn :
        IF eq THEN sgn = 0 ELSE sgn >= 0)

RECURSIVE CheckSamplesFrom(_, _, _, _)
CheckSamplesFrom(tab, ineq, eq, i) ==
    IF i >= tab.n_sample THEN tab
    ELSE IF SampleSatisfies(tab, At(tab.samples, i), ineq, eq)
    THEN CheckSamplesFrom(tab, ineq, eq, i + 1)
    ELSE CheckSamplesFrom(drop_sample(tab, i), ineq, eq, i + 1)

check_samples(tab, ineq, eq) ==
    IF tab.null THEN tab ELSE CheckSamplesFrom(tab, ineq, eq, tab.n_outside)

sample_is_finite(tab) ==
    \/ tab.M = 0
    \/ \A i \in 0..(tab.n_var - 1) :
          /\ At(tab.var, i).is_row
          /\ At(tab.mat, At(tab.var, i).index).d
                = At(tab.mat, At(tab.var, i).index).m

RECURSIVE LcmDenFrom(_, _)
LcmDenFrom(tab, i) ==
    IF i >= tab.n_var THEN 1
    ELSE        Bind(LcmDenFrom(tab, i + 1), LAMBDA rest :
         LET v == At(tab.var, i) IN
             Bind(IF v.is_row THEN At(tab.mat, v.index).d ELSE 1, LAMBDA d :
             (rest * d) \div isl_int_gcd(rest, d)))

\* isl_tab_get_sample_value: the constants of the rows of the variables
\* over their common denominator, 0 for a variable in a column
isl_tab_get_sample_value(tab) ==
        Bind(LcmDenFrom(tab, 0), LAMBDA l :
        isl_vec_normalize(
           [k \in 1..(1 + tab.n_var) |->
              IF k = 1 THEN l
              ELSE LET v == At(tab.var, k - 2)
                   IN  IF v.is_row
                       THEN At(tab.mat, v.index).c
                            * (l \div At(tab.mat, v.index).d)
                       ELSE 0]))

\* context_is_feasible: feasible is 1, 0 or -1 (error); tab is the context
\* tableau it leaves
context_is_feasible(ctx) ==
    LET snap == isl_tab_snap(ctx) IN
        Bind(cut_to_integer_lexmin(snap), LAMBDA t :
    LET t1 == IF ~t.empty /\ sample_is_finite(t)
              THEN [t EXCEPT !.samples =
                                Append(t.samples, isl_tab_get_sample_value(t)),
                             !.n_sample = t.n_sample + 1]
              ELSE t
    IN  IF ctx.null \/ t.null THEN [tab |-> NullTab, feasible |-> -1]
        ELSE [tab |-> isl_tab_rollback(t1, snap),
              feasible |-> IF t.empty THEN 0 ELSE 1])

context_valid_sample_or_feasible(ctx, ineq, eq) ==
    IF ctx.null THEN [tab |-> NullTab, feasible |-> -1]
    ELSE IF \E i \in ctx.n_outside..(ctx.n_sample - 1) :
               SampleSatisfies(ctx, At(ctx.samples, i), ineq, eq)
    THEN [tab |-> ctx, feasible |-> 1]
    ELSE context_is_feasible(ctx)

\* the second constraint of a div d = floor(f/m): -(f - (m - 1)) + m d >= 0
DivLowerIneq(bset, total, div) ==
    LET dv == At(bset.div, div)
        div_pos == 1 + total - bset.n_div + div IN
          Bind(Upd(isl_seq_neg(SubSeq(dv, 2, 2 + total)), div_pos, dv[1]), LAMBDA neg :
        Upd(neg, 0, At(neg, 0) + dv[1] - 1))

add_div_constraints(tab, div) ==
    IF tab.null THEN tab
    ELSE LET t == add_lexmin_ineq(tab, ineq_for_div(tab.bset, tab.n_var, div))
         IN  add_lexmin_ineq(t, DivLowerIneq(tab.bset, tab.n_var, div))

\* a basic set with one more div, not yet constrained
BsetAllocDiv(bset, div) ==
    [n_div |-> bset.n_div + 1,
     eq |-> [i \in 1..Len(bset.eq) |-> Append(bset.eq[i], 0)],
     ineq |-> [i \in 1..Len(bset.ineq) |-> Append(bset.ineq[i], 0)],
     div |-> Append([i \in 1..Len(bset.div) |-> Append(bset.div[i], 0)],
                    Append(div, 0)),
     empty |-> bset.empty]

\* add_div on the context tableau: a new non-negative variable, its value
\* in the live samples, its definition in the basic set and its constraints
add_div_context(ctx, div) ==
         Bind(isl_tab_allocate_var(ctx), LAMBDA t0 :
    LET r == t0.n_var - 1 IN
         Bind([t0 EXCEPT
                 !.var = Upd(t0.var, r, [At(t0.var, r) EXCEPT
                                            !.is_nonneg = TRUE,
                                            !.frozen = TRUE]),
                 !.samples =
                    [i \in 1..Len(t0.samples) |->
                       Append(t0.samples[i],
                              IF i - 1 >= t0.n_outside
                              THEN isl_int_fdiv_q(
                                     isl_seq_inner_product(
                                        SubSeq(div, 2, Len(div)),
                                        t0.samples[i], Len(div) - 1),
                                     div[1])
                              ELSE 0)],
                 !.bset = BsetAllocDiv(t0.bset, div)], LAMBDA t1 :
        add_div_constraints(t1, t1.bset.n_div - 1)))

\* add_div on the main tableau: a new div variable
add_div_main(tab, ctx) ==
         Bind(isl_tab_allocate_var(tab), LAMBDA t0 :
    LET r == t0.n_var - 1
    IN  [t0 EXCEPT !.var = Upd(t0.var, r, [At(t0.var, r) EXCEPT
                                              !.is_nonneg = (ctx.M = 0),
                                              !.frozen = TRUE]),
                   !.n_div = t0.n_div + 1])

\* find_div: the divs of the context that match on the denominator and on
\* the first total elements of the numerator
find_div(ctx, div) ==
    Least({i \in 0..(ctx.bset.n_div - 1) :
             /\ At(ctx.bset.div, i)[1] = div[1]
             /\ SubSeq(At(ctx.bset.div, i), 2, 1 + ctx.n_var)
                   = SubSeq(div, 2, 1 + ctx.n_var)})

\* get_div: d is the index of the div, -1 on error
get_div(tab, ctx, div) ==
        Bind(find_div(ctx, div), LAMBDA d :
         Bind(add_div_context(ctx, div), LAMBDA c1 :
         Bind(add_div_main(tab, c1), LAMBDA t1 :
        IF d # -1 THEN [tab |-> tab, ctx |-> ctx, d |-> d]
        ELSE IF c1.null THEN [tab |-> tab, ctx |-> NullTab, d |-> -1]
        ELSE [tab |-> t1, ctx |-> c1, d |-> t1.n_div - 1])))

\* the cut of add_parametric_cut before the div q is added to it
ParametricCutRow(tab, row) ==
    LET src == At(tab.mat, row)
    IN  [d |-> src.d,
         c |-> -isl_int_fdiv_r(-src.c, src.d),
         m |-> 0,
         a |-> [j \in 1..Len(src.a) |->
                  IF IsParamCol(tab, j - 1)
                  THEN -isl_int_fdiv_r(-src.a[j], src.d)
                  ELSE isl_int_fdiv_r(src.a[j], src.d)]]

\* the cut with the div q of variable v added to it
ParametricCutPlusDiv(tab, row, cut, v) ==
    IF v.is_row
    THEN LET dr == At(tab.mat, v.index) IN
             Bind(isl_int_gcd(dr.d, cut.d), LAMBDA g :
         LET r0 == cut.d \div g
         IN  CombineRows(dr.d \div g, cut, r0, dr, r0 * dr.d))
    ELSE [cut EXCEPT !.a = Upd(cut.a, v.index, At(tab.mat, row).d)]

\* add_parametric_cut: the cut is the last row of the main tableau of the
\* result; ok is false on error
add_parametric_cut(tab, row, ctx) ==
        Bind(get_div(tab, ctx, get_row_parameter_div(tab, row)), LAMBDA g :
         Bind(SetConNonneg(isl_tab_allocate_con(g.tab), g.tab.n_con), LAMBDA t0 :
    LET v == At(t0.var, t0.n_var - t0.n_div + g.d)
        cut == ParametricCutPlusDiv(t0, row, ParametricCutRow(t0, row), v)
    IN  IF ctx.null \/ g.d < 0
        THEN [tab |-> tab, ctx |-> NullTab, ok |-> FALSE]
        ELSE [tab |-> [t0 EXCEPT
                         !.mat = Upd(t0.mat, t0.n_row - 1, cut),
                         !.row_sign = Upd(t0.row_sign, t0.n_row - 1,
                                          isl_tab_row_neg)],
              ctx |-> g.ctx, ok |-> TRUE]))

(***************************************************************************)
(* Construction of the two tableaus.  A basic map is the record            *)
(* (n_param, n_out, eq, ineq): its constraints are vectors over            *)
(* (1, parameters and input dimensions, output dimensions).  A basic set   *)
(* is the record (n_div, eq, ineq, div) over (1, dimensions, divs).        *)
(***************************************************************************)
\* isl_seq_neg of the coefficients of the non-parameter variables, as
\* tab_for_lexmin does when a maximum is computed
NegVars(tab, v, max) ==
    IF max
    THEN [k \in 1..Len(v) |->
            IF k - 1 >= 1 + tab.n_param /\ k - 1 <= tab.n_var - tab.n_div
            THEN -v[k] ELSE v[k]]
    ELSE v

RECURSIVE TabAddEqs(_, _, _, _)
TabAddEqs(tab, eqs, max, i) ==
    IF i > Len(eqs) \/ tab.null \/ tab.empty THEN tab
    ELSE TabAddEqs(add_lexmin_valid_eq(tab, NegVars(tab, eqs[i], max)),
                   eqs, max, i + 1)

RECURSIVE TabAddIneqs(_, _, _, _)
TabAddIneqs(tab, ineqs, max, i) ==
    IF i > Len(ineqs) \/ tab.null \/ tab.empty THEN tab
    ELSE TabAddIneqs(add_lexmin_ineq(tab, NegVars(tab, ineqs[i], max)),
                     ineqs, max, i + 1)

\* tab_for_lexmin: n_var is the total dimension of the constraints; with a
\* domain the first dom_dim variables are parameters and the rows have signs
tab_for_lexmin(n_var, bempty, eqs, ineqs, has_dom, dom_dim, dom_n_div, M,
               max) ==
    LET t0 == isl_tab_alloc(n_var, M)
        t1 == IF has_dom
              THEN [t0 EXCEPT !.n_param = dom_dim - dom_n_div,
                              !.n_div = dom_n_div,
                              !.has_row_sign = TRUE]
              ELSE t0
        t2 == [t1 EXCEPT !.var =
                 [i \in 1..Len(t1.var) |->
                    IF i - 1 >= t1.n_param /\ i - 1 < t1.n_var - t1.n_div
                    THEN [t1.var[i] EXCEPT !.is_nonneg = TRUE,
                                           !.frozen = TRUE]
                    ELSE t1.var[i]]]
    IN  IF bempty THEN isl_tab_mark_empty(t1)
        ELSE TabAddIneqs(TabAddEqs(t2, eqs, max, 1), ineqs, max, 1)

\* context_tab_for_lexmin: the context tableau of the basic set dom over
\* dom_dim dimensions, with an empty cache of samples
context_tab_for_lexmin(dom, dom_dim) ==
        Bind(tab_for_lexmin(dom_dim, dom.empty, dom.eq, dom.ineq, FALSE, 0, 0,
                            1, FALSE), LAMBDA t :
        IF t.null THEN t
        ELSE [t EXCEPT !.has_bset = TRUE, !.bset = dom,
                       !.samples = <<>>, !.n_sample = 0, !.n_outside = 0])

\* the non-negativity test of tab_detect_nonnegative_parameters for
\* variable i of the context: with x_i >= 0 added the context is not empty
\* and the minimum of x_i is more than -1
ParamIsNonneg(ctx, i) ==
           Bind([k \in 1..(1 + ctx.n_var) |-> IF k = i + 2 THEN 1 ELSE 0], LAMBDA ineq :
        /\ RatFeasible(BsetIneqs(ctx.bset) \cup {ineq}, ctx.n_var)
        /\ ~isl_tab_min_at_most_neg_one(ctx, {}, ineq))

\* the main tableau tab_detect_nonnegative_parameters leaves
tab_detect_nonnegative_parameters(tab, ctx) ==
    [tab EXCEPT !.var =
        [k \in 1..Len(tab.var) |->
           IF /\ \/ k - 1 < tab.n_param
                 \/ k - 1 >= tab.n_var - tab.n_div
              /\ ParamIsNonneg(ctx,
                               IF k - 1 < tab.n_param THEN k - 1
                               ELSE k - 1 - (tab.n_var - tab.n_div)
                                    + tab.n_param)
           THEN [tab.var[k] EXCEPT !.is_nonneg = TRUE]
           ELSE tab.var[k]]]

\* the context tableau tab_detect_nonnegative_parameters leaves: without
\* the big parameter if every variable is non-negative
detect_nonnegative_context(ctx) ==
    IF ctx.n_var = 0 THEN ctx
    ELSE IF \A i \in 0..(ctx.n_var - 1) : ParamIsNonneg(ctx, i)
    THEN [isl_tab_snap(ctx) EXCEPT !.M = 0]
    ELSE isl_tab_snap(ctx)

is_critical(tab, row) ==
    \A j \in tab.n_dead..(tab.n_col - 1) :
        IsParamCol(tab, j) \/ At(At(tab.mat, row).a, j) <= 0

\* the gcd of the coefficients of an inequality
CoefGcd(vec) == isl_seq_gcd(SubSeq(vec, 2, Len(vec)))

\* is_strict: no integer point satisfies the inequality with equality
is_strict(vec) ==
    CoefGcd(vec) # 1 /\ ~isl_int_is_divisible_by(vec[1], CoefGcd(vec))

\* the inequality is_strict leaves: scaled down by the gcd of the
\* coefficients
is_strict_vec(vec) ==
    IF CoefGcd(vec) # 1
    THEN [k \in 1..Len(vec) |->
            IF k = 1 THEN isl_int_fdiv_q(vec[1], CoefGcd(vec))
            ELSE vec[k] \div CoefGcd(vec)]
    ELSE vec

(***************************************************************************)
(* The parametric driver.  Operations that change both a tableau and the   *)
(* context return a record of the values they leave.                       *)
(***************************************************************************)
\* v with its constant term lowered by one
SubOne(v) == Upd(v, 0, At(v, 0) - 1)

\* NegateIneq that lowers the constant by two: -ineq - 2 >= 0
NegateIneq_gap(ineq) == SubOne(SubOne(isl_seq_neg(ineq)))

\* NegateIneq that does not lower the constant: -ineq >= 0
NegateIneq_overlap(ineq) == isl_seq_neg(ineq)

\* the inequality of the negative side of a split on ineq: -ineq - 1 >= 0
NegateIneq(ineq) == SubOne(isl_seq_neg(ineq))

\* SampleSign that counts a sample with value zero as positive for every
\* row
SampleSign_zero(ctx, ineq, zero_is_pos) ==
           Bind({At(ctx.samples, i) : i \in ctx.n_outside..(ctx.n_sample - 1)}, LAMBDA live :
    LET val(s) == isl_seq_inner_product(s, ineq, Len(ineq)) IN
              Bind(\E s \in live : val(s) >= 0, LAMBDA has_pos :
    LET has_neg == \E s \in live : val(s) < 0
    IN  IF has_pos /\ has_neg THEN isl_tab_row_any
        ELSE IF has_pos THEN isl_tab_row_pos
        ELSE IF has_neg THEN isl_tab_row_neg
        ELSE isl_tab_row_unknown))

\* the sign of the row on the live samples of the context
SampleSign(ctx, ineq, zero_is_pos) ==
           Bind({At(ctx.samples, i) : i \in ctx.n_outside..(ctx.n_sample - 1)}, LAMBDA live :
    LET val(s) == isl_seq_inner_product(s, ineq, Len(ineq)) IN
              Bind(\E s \in live : val(s) > 0 \/ (val(s) = 0 /\ zero_is_pos), LAMBDA has_pos :
    LET has_neg == \E s \in live : val(s) < 0
    IN  IF has_pos /\ has_neg THEN isl_tab_row_any
        ELSE IF has_pos THEN isl_tab_row_pos
        ELSE IF has_neg THEN isl_tab_row_neg
        ELSE isl_tab_row_unknown))

\* the test of row_sign for values of the parameters that satisfy ineq
RowSignTest(ctx, snap, ineq) ==
        Bind(context_is_feasible(add_lexmin_ineq(ctx, ineq)), LAMBDA f :
        [feasible |-> f.feasible,
         ctx |-> IF f.feasible < 0 THEN NullTab
                 ELSE isl_tab_rollback(f.tab, snap)])

\* row_sign when the sign is neither known nor obvious
RowSignContext(tab, ctx, row) ==
               Bind(is_critical(tab, row), LAMBDA critical :
            Bind(get_row_parameter_ineq(tab, row), LAMBDA ineq0 :
             Bind(is_strict(ineq0), LAMBDA strict :
           Bind(is_strict_vec(ineq0), LAMBDA ineq :
           Bind(SampleSign(ctx, ineq, critical \/ strict), LAMBDA res0 :
    LET snap == isl_tab_snap(ctx) IN
         Bind(RowSignTest(snap, snap, NegateIneq(ineq)), LAMBDA t1 :
           Bind(IF res0 = isl_tab_row_unknown \/ res0 = isl_tab_row_pos
                THEN IF t1.feasible = 0 THEN isl_tab_row_pos
                     ELSE IF res0 = isl_tab_row_unknown THEN isl_tab_row_neg
                     ELSE isl_tab_row_any
                ELSE res0, LAMBDA res1 :
           Bind(IF res0 = isl_tab_row_unknown \/ res0 = isl_tab_row_pos
                THEN t1.ctx ELSE snap, LAMBDA ctx1 :
         Bind(RowSignTest(ctx1, snap,
                          IF ~critical /\ ~strict THEN SubOne(ineq) ELSE ineq), LAMBDA t2 :
        IF res0 = isl_tab_row_any THEN [sgn |-> res0, ctx |-> ctx]
        ELSE IF ctx1.null THEN [sgn |-> 0, ctx |-> ctx1]
        ELSE IF res1 # isl_tab_row_neg THEN [sgn |-> res1, ctx |-> ctx1]
        ELSE IF t2.feasible < 0 THEN [sgn |-> 0, ctx |-> t2.ctx]
        ELSE [sgn |-> IF t2.feasible = 1 THEN isl_tab_row_any
                      ELSE isl_tab_row_neg,
              ctx |-> t2.ctx])))))))))

\* the rows with a known sign and the same parametric constant as row
IdenticalRows(tab, row) ==
    {row2 \in tab.n_redundant..(tab.n_row - 1) :
        /\ At(tab.row_sign, row2) # isl_tab_row_unknown
        /\ identical_parameter_line(tab, row, row2)}

\* row_sign: sgn is pos, neg or any (0 on error); ctx is the context it
\* leaves, with the samples it found
row_sign(tab, ctx, row) ==
    IF At(tab.row_sign, row) # isl_tab_row_unknown
    THEN [sgn |-> At(tab.row_sign, row), ctx |-> ctx]
    ELSE IF is_obviously_nonneg(tab, row)
    THEN [sgn |-> isl_tab_row_pos, ctx |-> ctx]
    ELSE IF IdenticalRows(tab, row) # {}
    THEN [sgn |-> At(tab.row_sign, Least(IdenticalRows(tab, row))),
          ctx |-> ctx]
    ELSE RowSignContext(tab, ctx, row)

\* the loop of find_solutions over the rows: the signs it stores, the
\* first row that needs a split and the number of such rows; neg says that
\* it stopped at a negative row, ok is false on error
RECURSIVE SignPass(_, _, _, _, _)
SignPass(tab, ctx, row, split, n_split) ==
    IF row >= tab.n_row
    THEN [tab |-> tab, ctx |-> ctx, neg |-> FALSE, split |-> split,
          n_split |-> n_split, ok |-> TRUE]
    ELSE IF ~isl_tab_var_from_row(tab, row).is_nonneg
    THEN SignPass(tab, ctx, row + 1, split, n_split)
    ELSE      Bind(row_sign(tab, ctx, row), LAMBDA rs :
             Bind([tab EXCEPT !.row_sign = Upd(tab.row_sign, row, rs.sgn)], LAMBDA t :
         LET any == rs.sgn = isl_tab_row_any
         IN  IF rs.sgn = 0
             THEN [tab |-> tab, ctx |-> rs.ctx, neg |-> FALSE,
                   split |-> split, n_split |-> n_split, ok |-> FALSE]
             ELSE IF rs.sgn = isl_tab_row_neg
             THEN [tab |-> t, ctx |-> rs.ctx, neg |-> TRUE,
                   split |-> split, n_split |-> n_split, ok |-> TRUE]
             ELSE SignPass(t, rs.ctx, row + 1,
                           IF any /\ split = -1 THEN row ELSE split,
                           IF any THEN n_split + 1 ELSE n_split)))

\* the rows best_split chooses from
SplitRows(tab) ==
    {row \in tab.n_redundant..(tab.n_row - 1) :
        /\ isl_tab_var_from_row(tab, row).is_nonneg
        /\ At(tab.row_sign, row) = isl_tab_row_any}

\* the number of rows that are redundant where the row split is
\* non-negative
SplitScore(tab, ctx, split) ==
        Bind(get_row_parameter_ineq(tab, split), LAMBDA s :
        Cardinality({row \in SplitRows(tab) \ {split} :
                  Bind(get_row_parameter_ineq(tab, row), LAMBDA ineq :
               /\ RatFeasible(BsetIneqs(ctx.bset) \cup {s, ineq}, ctx.n_var)
               /\ ~isl_tab_min_at_most_neg_one(ctx, {s}, ineq))}))

\* best_split: the first row that makes the most other rows redundant
best_split(tab, ctx) ==
    Least({s \in SplitRows(tab) :
             \A t \in SplitRows(tab) :
                \/ SplitScore(tab, ctx, t) < SplitScore(tab, ctx, s)
                \/ (SplitScore(tab, ctx, t) = SplitScore(tab, ctx, s)
                    /\ s <= t)})

(***************************************************************************)
(* struct isl_sol and its two implementations.  A solution object is the   *)
(* record (null, kind, context_tab, max, track_empty, map, empty, n_call,  *)
(* fail_at, dom): map and empty are the pieces and the no-solution sets of *)
(* an isl_sol_map; the visitor of an isl_sol_for returns -1 on its call    *)
(* number fail_at.  null says that the object was freed and the pointer    *)
(* to it is NULL.  dom is the domain the object was made for.              *)
(***************************************************************************)
\* the solution object after sol_free and "return NULL"
FreeSol(s) == [s EXCEPT !.null = TRUE, !.context_tab = NullTab]

\* the output variables of the main tableau
OutVars(tab) == tab.n_param..(tab.n_var - tab.n_div - 1)

\* some output variable is in a column: its optimum is unbounded
HasNonBasicOutput(tab) == \E i \in OutVars(tab) : ~At(tab.var, i).is_row

\* the assertion on the row of an output variable: the coefficient of the
\* big parameter is one
OutputRowFinite(tab, i) ==
    \/ tab.M = 0
    \/ At(tab.mat, At(tab.var, i).index).m
          = At(tab.mat, At(tab.var, i).index).d

\* MapOutput that states the row as it is in the tableau, for a maximum
\* too
MapOutput_nomax(tab, i, max) ==
    LET v == At(tab.var, i) IN
    IF ~v.is_row
    THEN [d |-> 1, line |-> Zeros(1 + tab.n_param + tab.n_div)]
    ELSE [d |-> At(tab.mat, v.index).d,
          line |-> get_row_parameter_line(tab, v.index)]

\* the value of output variable i as sol_map_add states it in an equality:
\* d x = line for a minimum, d x = -line for a maximum, 0 for a variable in
\* a column
MapOutput(tab, i, max) ==
    LET v == At(tab.var, i) IN
           Bind(get_row_parameter_line(tab, v.index), LAMBDA line :
        IF ~v.is_row
        THEN [d |-> 1, line |-> Zeros(1 + tab.n_param + tab.n_div)]
        ELSE [d |-> At(tab.mat, v.index).d,
              line |-> IF max THEN isl_seq_neg(line) ELSE line])

\* the row of output variable i in the matrix sol_for_add passes on
ForOutput(tab, i, max) ==
    LET v == At(tab.var, i)
        d == At(tab.mat, v.index).d IN
           Bind(isl_seq_scale_down(get_row_parameter_line(tab, v.index), d), LAMBDA line :
        IF ~v.is_row
        THEN [d |-> 1, line |-> Zeros(1 + tab.n_param + tab.n_div)]
        ELSE [d |-> 1, line |-> IF max THEN isl_seq_neg(line) ELSE line])

\* the outputs of a piece, first output first
Outputs(tab, max, F(_, _, _)) ==
    [k \in 1..(tab.n_var - tab.n_div - tab.n_param) |->
        F(tab, tab.n_param + k - 1, max)]

add_empty(s) ==
    IF ~s.track_empty THEN s
    ELSE [s EXCEPT !.empty = Append(s.empty, s.context_tab.bset)]

sol_map_add(s, tab) ==
    IF s.null \/ tab.null THEN FreeSol(s)
    ELSE IF tab.empty THEN add_empty(s)
    ELSE IF \E i \in OutVars(tab) :
               IF At(tab.var, i).is_row THEN ~OutputRowFinite(tab, i)
               ELSE tab.M = 1
    THEN FreeSol(s)
    ELSE [s EXCEPT !.map =
             Append(s.map, [dom |-> s.context_tab.bset,
                              out |-> Outputs(tab, s.max, MapOutput)])]

\* does sol_for_add get as far as calling the visitor
ForCallsVisitor(s, tab) ==
    /\ ~s.null
    /\ ~tab.null
    /\ ~tab.empty
    /\ \A i \in OutVars(tab) :
          At(tab.var, i).is_row => OutputRowFinite(tab, i)

sol_for_add(s, tab) ==
    IF s.null \/ tab.null THEN FreeSol(s)
    ELSE IF tab.empty THEN s
    ELSE IF ~ForCallsVisitor(s, tab) THEN FreeSol(s)
    ELSE IF s.n_call + 1 = s.fail_at
    THEN [FreeSol(s) EXCEPT !.n_call = s.n_call + 1]
    ELSE [s EXCEPT !.n_call = s.n_call + 1]

\* sol->add
sol_add(s, tab) ==
    IF s.kind = "map" THEN sol_map_add(s, tab) ELSE sol_for_add(s, tab)

\* what a call of sol->add did: it added a piece to the map ("piece"),
\* called the visitor ("visit"), handled a tableau without solution
\* ("empty") or failed before any of these ("error")
AddKind(s, tab) ==
    IF s.null \/ tab.null THEN "error"
    ELSE IF tab.empty THEN "empty"
    ELSE IF s.kind = "map"
    THEN IF sol_map_add(s, tab).null THEN "error" ELSE "piece"
    ELSE IF ForCallsVisitor(s, tab) THEN "visit" ELSE "error"

\* the record of a call of sol->add: what it did, the domain and the
\* outputs it passed on, whether some output variable was in a column,
\* whether the set without solution was stored and the path of decisions
\* that led to the call
Leaf(s, tab, path) ==
    [kind |-> AddKind(s, tab),
     dom |-> IF s.null THEN NoBset ELSE s.context_tab.bset,
     out |-> IF AddKind(s, tab) = "piece"
             THEN Outputs(tab, s.max, MapOutput)
             ELSE IF AddKind(s, tab) = "visit"
             THEN Outputs(tab, s.max, ForOutput)
             ELSE <<>>,
     nonbasic |-> ~tab.null /\ ~tab.empty /\ HasNonBasicOutput(tab),
     failed |-> ~s.null /\ sol_add(s, tab).null,
     path |-> path]

(***************************************************************************)
(* The calls of find_solutions.  A frame of the stack is the record        *)
(* (ref, tab, pc, split, n_split, ineq, snap, path, caller_tab): the       *)
(* object its pointer tab refers to and the main tableau that is there,    *)
(* where the call is, the row and the inequality it splits on, the         *)
(* snapshot find_in_pos took of the context, the decisions on the          *)
(* parameters that led to the call, each the pair of an inequality and the *)
(* side taken, and the tableau of the call when it entered find_in_pos.    *)
(***************************************************************************)
NoVec == <<>>

\* the state of a call of find_solutions: the object ref its pointer tab
\* refers to and the value of that object, where the call is, the row and
\* the inequality of its split, the snapshot find_in_pos took, and the
\* path of decisions that led to the call; caller_tab and dup_tab keep the
\* tableau as it was handed to find_in_pos and the duplicate as the
\* recursion left it
Frame(ref, tab, pc, path) ==
    [ref |-> ref, tab |-> tab, pc |-> pc, split |-> -1, n_split |-> 0,
     ineq |-> NoVec, snap |-> NullTab, path |-> path,
     caller_tab |-> NullTab, dup_tab |-> NullTab]

Top == stack[Len(stack)]

\* the stack after the innermost call changed its frame to f: what it
\* wrote to its tableau is seen by every call whose pointer refers to the
\* same object
SetTop(f) ==
    [i \in 1..Len(stack) |->
        IF i = Len(stack) THEN f
        ELSE IF stack[i].ref = f.ref THEN [stack[i] EXCEPT !.tab = f.tab]
        ELSE stack[i]]

\* a decision: the side taken on the vector ineq is "pos" (ineq >= 0),
\* "neg" (-ineq - 1 >= 0), "strict" (ineq - 1 >= 0), "strict2"
\* (-ineq - 1 >= 0, as the second call of no_sol_in_strict for an
\* equality), "eq" (ineq = 0) or "div" (-ineq >= 0)
Step(ineq, side) == [ineq |-> ineq, side |-> side]

\* where find_solutions goes after "tab = restore_lexmin(tab)": round the
\* loop again, or to done when the tableau is empty
LoopPc(tab) == IF tab.null \/ tab.empty THEN "done" ELSE "signs"

NoSol ==
    [null |-> TRUE, kind |-> "none", context_tab |-> NullTab, max |-> FALSE,
     track_empty |-> FALSE, map |-> <<>>, empty |-> <<>>, n_call |-> 0,
     fail_at |-> 0, dom |-> NoBset]

NoResult == [ret |-> "none", map |-> <<>>, empty |-> <<>>]

NoBmap ==
    [n_param |-> 0, n_out |-> 0, eq |-> <<>>, ineq |-> <<>>, empty |-> FALSE]

\* no_sol_in_strict that does not lower the constant of ineq: it records
\* the part of the context where ineq >= 0
no_sol_in_strict_nonstrict(s, tab, ineq, path) ==
    LET snap == isl_tab_snap(s.context_tab) IN
    Bind(context_valid_sample_or_feasible(add_lexmin_ineq(snap, ineq),
                                          ineq, FALSE), LAMBDA f :
    LET s1 == [s EXCEPT !.context_tab = f.tab]
        empty_tab == [tab EXCEPT !.empty = TRUE] IN
    Bind(sol_add(s1, empty_tab), LAMBDA s2 :
    IF f.feasible < 0
    THEN [sol |-> FreeSol(s), leaves |-> <<>>]
    ELSE [sol |-> IF s2.null THEN s2
                  ELSE [s2 EXCEPT !.context_tab =
                          isl_tab_rollback(s2.context_tab, snap)],
          leaves |-> <<Leaf(s1, empty_tab, path)>>]))

\* no_sol_in_strict that leaves the strict inequality in the context
no_sol_in_strict_keep(s, tab, ineq, path) ==
    LET snap == isl_tab_snap(s.context_tab) IN
            Bind(SubOne(ineq), LAMBDA ineq1 :
        Bind(context_valid_sample_or_feasible(add_lexmin_ineq(snap, ineq1),
                                              ineq1, FALSE), LAMBDA f :
    LET s1 == [s EXCEPT !.context_tab = f.tab]
        empty_tab == [tab EXCEPT !.empty = TRUE] IN
         Bind(sol_add(s1, empty_tab), LAMBDA s2 :
        IF f.feasible < 0
        THEN [sol |-> FreeSol(s), leaves |-> <<>>, tab |-> tab,
              ineq |-> ineq1]
        ELSE [sol |-> s2,
              leaves |-> <<Leaf(s1, empty_tab, path)>>,
              tab |-> [empty_tab EXCEPT !.empty = tab.empty],
              ineq |-> Upd(ineq1, 0, At(ineq1, 0) + 1)])))

\* no_sol_in_strict: the solution object, the main tableau and the vector
\* ineq it leaves and the record of its call of sol->add, for the part of
\* the context where ineq >= 1
no_sol_in_strict(s, tab, ineq, path) ==
    LET snap == isl_tab_snap(s.context_tab) IN
            Bind(SubOne(ineq), LAMBDA ineq1 :
        Bind(context_valid_sample_or_feasible(add_lexmin_ineq(snap, ineq1),
                                              ineq1, FALSE), LAMBDA f :
    LET s1 == [s EXCEPT !.context_tab = f.tab]
        empty_tab == [tab EXCEPT !.empty = TRUE] IN
         Bind(sol_add(s1, empty_tab), LAMBDA s2 :
        IF f.feasible < 0
        THEN [sol |-> FreeSol(s), leaves |-> <<>>, tab |-> tab,
              ineq |-> ineq1]
        ELSE [sol |-> IF s2.null THEN s2
                      ELSE [s2 EXCEPT !.context_tab =
                              isl_tab_rollback(s2.context_tab, snap)],
              leaves |-> <<Leaf(s1, empty_tab, path)>>,
              tab |-> [empty_tab EXCEPT !.empty = tab.empty],
              ineq |-> Upd(ineq1, 0, At(ineq1, 0) + 1)])))

\* the rows of find_solutions_main: a parameter or a div of the context
\* that an equality of the map has pivoted into a row
ParamRows(tab) ==
    {row \in tab.n_redundant..(tab.n_row - 1) :
        /\ At(tab.row_var, row) >= 0
        /\ ~(/\ At(tab.row_var, row) >= tab.n_param
             /\ At(tab.row_var, row) < tab.n_var - tab.n_div)}

\* the equality of find_solutions_main for such a row
ParamRowEq(tab, row) ==
    LET v == At(tab.row_var, row)
        p == IF v < tab.n_param THEN v
             ELSE v + tab.n_param - (tab.n_var - tab.n_div)
    IN  isl_vec_normalize(Upd(get_row_parameter_line(tab, row), 1 + p,
                              -At(tab.mat, row).d))

\* the context after the equality is added to it in find_solutions_main
MainAddEq(ctx, eq) ==
    LET c1 == add_lexmin_eq(ctx, eq)
        f == context_valid_sample_or_feasible(c1, eq, TRUE)
    IN  check_samples(f.tab, eq, TRUE)

\* sol_map_init and sol_for_init: the solution object over the domain dom
sol_init(kind, dom, dom_dim, track_empty, max, fail_at) ==
        Bind(context_is_feasible(
                restore_lexmin(context_tab_for_lexmin(dom, dom_dim))), LAMBDA f :
        [null |-> f.feasible < 0, kind |-> kind, context_tab |-> f.tab,
         max |-> max, track_empty |-> track_empty, map |-> <<>>,
         empty |-> <<>>, n_call |-> 0, fail_at |-> fail_at, dom |-> dom])

\* the universe of dom_dim dimensions
isl_basic_set_universe == NoBset

\* isl_tab_dup: the object that holds the copy find_in_pos works on, one
\* that no call refers to yet
isl_tab_dup(ref) == ref + 1

(***************************************************************************)
(* The basic maps and the domains the entry points are called with: one    *)
(* parameter, one or two outputs, constraints with small coefficients.     *)
(***************************************************************************)
\* the largest absolute value of the constant of a constraint
MaxCst == 1

\* the largest absolute value of the coefficient of an output
MaxCoef == 2

\* the largest coefficient of the output in an equality or a strip
MaxDen == 3

\* the visitor fails at its call number 1..MaxFail, or never (0)
MaxFail == 2

Bmap(n_out, eq, ineq) ==
    [n_param |-> 1, n_out |-> n_out, eq |-> eq, ineq |-> ineq,
     empty |-> FALSE]

\* inequalities c + a p + b x >= 0 in one output
Ineqs1 ==
    {<<c, a, b>> : c \in -MaxCst..MaxCst, a \in -1..1,
                   b \in (-MaxCoef..MaxCoef) \ {0}}

\* one inequality, alone and with x >= 0
IneqProblems ==
    {Bmap(1, <<>>, <<i>>) : i \in Ineqs1}
    \cup {Bmap(1, <<>>, <<i, <<0, 0, 1>>>>) : i \in Ineqs1}

\* the strips lo <= d x <= hi with lo < hi, as <<lo, hi, d>>
Strips ==
    {t \in (0..MaxDen) \X (0..MaxDen) \X (2..MaxDen) : t[1] < t[2]}

StripProblems ==
    {Bmap(1, <<>>, <<<<-t[1], 0, t[3]>>, <<t[2], 0, -t[3]>>>>) : t \in Strips}

\* equalities c + a p + d x = 0, the coefficient of the output positive
\* as isl_basic_map_gauss leaves it
Eqs1 ==
    {<<c, a, d>> : c \in -MaxCst..MaxCst, a \in -1..1, d \in 1..MaxDen}

\* one equality, alone and with x >= 0, from which the equality has
\* eliminated x
EqProblems ==
    {Bmap(1, <<e>>, <<>>) : e \in Eqs1}
    \cup {Bmap(1, <<e>>, <<<<-e[1], -e[2], 0>>>>) :
             e \in {f \in Eqs1 : f[2] # 0}}

\* an equality p = -c on the parameter and an inequality on the output
ParamEqProblems ==
    {Bmap(1, <<<<c, 1, 0>>>>, <<i>>) :
        c \in -MaxCst..MaxCst, i \in {j \in Ineqs1 : j[2] = 0}}

\* a basic map that is marked empty, in the form
\* isl_basic_map_set_to_empty gives it
EmptyProblem ==
    [n_param |-> 1, n_out |-> 1, eq |-> <<<<1, 0, 0>>>>, ineq |-> <<>>,
     empty |-> TRUE]

\* two outputs x, y >= 0 and one inequality c + a p + b1 x + b2 y >= 0
Problems2 ==
    {Bmap(2, <<>>, <<<<0, 0, 1, 0>>, <<0, 0, 0, 1>>, <<c, a, b1, b2>>>>) :
        c \in -MaxCst..MaxCst, a \in {-1, 1}, b1 \in -1..1, b2 \in {-1, 1}}

Problems ==
    IneqProblems \cup StripProblems \cup EqProblems \cup ParamEqProblems
    \cup {EmptyProblem} \cup Problems2

Domain(ineq, empty) ==
    [n_div |-> 0, eq |-> IF empty THEN <<<<1, 0>>>> ELSE <<>>,
     ineq |-> ineq, div |-> <<>>, empty |-> empty]

\* the universe, p >= 0, and a set that is marked empty
Domains ==
    {Domain(<<>>, FALSE), Domain(<<<<0, 1>>>>, FALSE), Domain(<<>>, TRUE)}

(***************************************************************************)
(* The two entry points.  The basic map they are given is bmap as          *)
(* isl_basic_map_detect_equalities leaves it; phase says whether a call is *)
(* running, result is what the call returned.                              *)
(***************************************************************************)
\* the main tableau of the map over the context of the solution object
MainTab(s, max) ==
    tab_detect_nonnegative_parameters(
        tab_for_lexmin(bmap.n_param + bmap.n_out, bmap.empty, bmap.eq,
                       bmap.ineq, TRUE,
                       s.context_tab.n_var, s.context_tab.bset.n_div, 1, max),
        s.context_tab)

\* the solution object with the context tab_detect_nonnegative_parameters
\* leaves
MainSol(s) ==
    [s EXCEPT !.context_tab = detect_nonnegative_context(s.context_tab)]

\* the state in which find_solutions_main starts
StartMain(s, max) ==
    /\ phase' = "run"
    /\ sol' = MainSol(s)
    /\ stack' = <<Frame(0, MainTab(s, max), "main", <<>>)>>
    /\ UNCHANGED <<leaves, result, ub>>

\* the state in which the entry point goes to its return without a call
\* of find_solutions_main
SkipMain(s) ==
    /\ phase' = "run"
    /\ sol' = s
    /\ stack' = <<Frame(0, NullTab, "ret", <<>>)>>
    /\ UNCHANGED <<leaves, result, ub>>

isl_tab_basic_map_partial_lexopt ==
    /\ phase = "idle"
    /\ \E dom \in Domains, track_empty \in BOOLEAN, max \in BOOLEAN :
         LET s == sol_init("map", dom, bmap.n_param, track_empty, max, 0)
         IN  IF s.null \/ s.context_tab.bset.empty THEN SkipMain(s)
             ELSE IF bmap.empty THEN SkipMain(add_empty(s))
             ELSE StartMain(s, max)
    /\ UNCHANGED <<bmap, valVars, work,
                 tick>>

isl_basic_map_foreach_lexopt ==
    /\ phase = "idle"
    /\ \E max \in BOOLEAN, fail_at \in 0..MaxFail :
         LET s == sol_init("for", isl_basic_set_universe, bmap.n_param,
                           FALSE, max, fail_at)
         IN  IF s.null \/ bmap.empty THEN SkipMain(s)
             ELSE StartMain(s, max)
    /\ UNCHANGED <<bmap, valVars, work,
                 tick>>

\* find_solutions_main that records the leaf of one strict side only
find_solutions_main_one ==
    /\ phase = "run"
    /\ Top.pc = "main"
    /\ ParamRows(Top.tab) # {}
    /\ LET tab == Top.tab IN
      \E row \in {Least(ParamRows(tab))} :
      \E eq \in {ParamRowEq(tab, row)} :
      \E n1 \in {no_sol_in_strict(sol, tab, eq,
                                  Append(Top.path, Step(eq, "strict")))} :
      \E s3 \in {IF n1.sol.null THEN n1.sol
                 ELSE [n1.sol EXCEPT !.context_tab =
                          MainAddEq(n1.sol.context_tab, eq)]} :
           /\ leaves' = leaves \o n1.leaves
           /\ sol' = IF s3.context_tab.null THEN FreeSol(s3) ELSE s3
           /\ ub' = IF n1.sol.null THEN ub \cup {"null_sol"} ELSE ub
           /\ stack' = SetTop([Top EXCEPT
                                 !.tab = isl_tab_mark_redundant(tab, row),
                                 !.pc = IF s3.context_tab.null THEN "ret"
                                        ELSE IF s3.context_tab.empty
                                        THEN "entry"
                                        ELSE "main",
                                 !.path = Append(Top.path,
                                                 Step(eq, "eq"))])
    /\ UNCHANGED <<bmap, phase, result, valVars, work,
                 tick>>

\* one round of the loop of find_solutions_main: the equality of a row of
\* a parameter goes to the context, after a call of sol->add for each of
\* the two sides on which it does not hold
find_solutions_main ==
    /\ phase = "run"
    /\ Top.pc = "main"
    /\ ParamRows(Top.tab) # {}
    /\ LET tab == Top.tab IN
      \E row \in {Least(ParamRows(tab))} :
      \E eq \in {ParamRowEq(tab, row)} :
      \E n1 \in {no_sol_in_strict(sol, tab, eq,
                                  Append(Top.path, Step(eq, "strict")))} :
      \E n2 \in {no_sol_in_strict(n1.sol, tab, isl_seq_neg(eq),
                                  Append(Top.path, Step(eq, "strict2")))} :
      \E s3 \in {IF n2.sol.null THEN n2.sol
                 ELSE [n2.sol EXCEPT !.context_tab =
                          MainAddEq(n2.sol.context_tab, eq)]} :
           /\ leaves' = leaves \o n1.leaves \o n2.leaves
           /\ sol' = IF s3.context_tab.null THEN FreeSol(s3) ELSE s3
           /\ ub' = IF n2.sol.null THEN ub \cup {"null_sol"} ELSE ub
           /\ stack' = SetTop([Top EXCEPT
                                 !.tab = isl_tab_mark_redundant(tab, row),
                                 !.pc = IF s3.context_tab.null THEN "ret"
                                        ELSE IF s3.context_tab.empty
                                        THEN "entry"
                                        ELSE "main",
                                 !.path = Append(Top.path,
                                                 Step(eq, "eq"))])
    /\ UNCHANGED <<bmap, phase, result, valVars, work,
                 tick>>

(***************************************************************************)
(* find_solutions, one action for each step of its loop.                   *)
(***************************************************************************)
\* the frame is at position pc of find_solutions
At_pc(pc) == phase = "run" /\ Top.pc = pc

\* the call starts: an empty tableau or an empty context goes to done
find_solutions_entry ==
    /\ phase = "run"
    /\ \/ Top.pc = "entry"
       \/ Top.pc = "main" /\ ParamRows(Top.tab) = {}
    /\ IF Top.tab.null \/ sol.null
       THEN /\ sol' = FreeSol(sol)
            /\ stack' = SetTop([Top EXCEPT !.pc = "ret"])
       ELSE /\ sol' = sol
            /\ stack' = SetTop([Top EXCEPT !.pc =
                                  IF Top.tab.empty \/ sol.context_tab.empty
                                  THEN "done" ELSE "signs"])
    /\ UNCHANGED <<bmap, phase, leaves, result, ub, valVars, work,
                 tick>>

\* the loop over the rows that computes their signs
find_solutions_signs ==
    /\ At_pc("signs")
    /\ \E sp \in {SignPass(Top.tab, sol.context_tab, Top.tab.n_redundant,
                           -1, 0)} :
           IF ~sp.ok
           THEN /\ sol' = FreeSol(sol)
                /\ stack' = SetTop([Top EXCEPT !.pc = "ret"])
           ELSE /\ sol' = [sol EXCEPT !.context_tab = sp.ctx]
                /\ stack' = SetTop([Top EXCEPT
                                      !.tab = sp.tab,
                                      !.split = sp.split,
                                      !.n_split = sp.n_split,
                                      !.pc = IF sp.neg THEN "pivot"
                                             ELSE IF sp.split # -1
                                             THEN "split"
                                             ELSE "integer"])
    /\ UNCHANGED <<bmap, phase, leaves, result, ub, valVars, work,
                 tick>>

\* "continue" at a negative row: restore_lexmin
find_solutions_pivot ==
    /\ At_pc("pivot")
    /\ \E tab \in {restore_lexmin(Top.tab)} :
           stack' = SetTop([Top EXCEPT !.tab = tab, !.pc = LoopPc(tab)])
    /\ UNCHANGED <<bmap, phase, sol, leaves, result, ub, valVars, work,
                 tick>>

\* the rows with sign any are unknown again, the row split is positive
ResetSigns(tab, split) ==
    [tab EXCEPT !.row_sign =
        [k \in 1..Len(tab.row_sign) |->
           IF k - 1 = split THEN isl_tab_row_pos
           ELSE IF /\ k - 1 >= tab.n_redundant
                   /\ k - 1 < tab.n_row
                   /\ isl_tab_var_from_row(tab, k - 1).is_nonneg
                   /\ tab.row_sign[k] = isl_tab_row_any
           THEN isl_tab_row_unknown
           ELSE tab.row_sign[k]]]

\* the split on a row of undetermined sign, up to the call of
\* find_solutions in find_in_pos on a copy of the tableau
find_in_pos ==
    /\ At_pc("split")
    /\ \E split \in {IF Top.n_split # 1
                     THEN best_split(Top.tab, sol.context_tab)
                     ELSE Top.split} :
      \E ineq \in {is_strict_vec(get_row_parameter_ineq(Top.tab, split))} :
      \E tab \in {ResetSigns(Top.tab, split)} :
       LET snap == isl_tab_snap(sol.context_tab)
           ctx == check_samples(add_lexmin_ineq(snap, ineq), ineq, FALSE)
       IN  IF split < 0
           THEN /\ sol' = FreeSol(sol)
                /\ stack' = SetTop([Top EXCEPT !.pc = "ret"])
           ELSE /\ sol' = [sol EXCEPT !.context_tab = ctx]
                /\ stack' = Append(SetTop([Top EXCEPT !.tab = tab,
                                                      !.split = split,
                                                      !.ineq = ineq,
                                                      !.snap = snap,
                                                      !.caller_tab = tab,
                                                      !.pc = "in_pos"]),
                                   Frame(isl_tab_dup(Top.ref), tab, "entry",
                                         Append(Top.path,
                                                Step(ineq, "pos"))))
    /\ UNCHANGED <<bmap, phase, leaves, result, ub, valVars, work,
                 tick>>

\* the state of the caller of a frame
Caller == stack[Len(stack) - 1]

\* find_in_pos_return without the rollback of the context
find_in_pos_return_keep ==
    /\ At_pc("ret")
    /\ Len(stack) > 1
    /\ sol' = sol
    /\ ub' = IF sol.null THEN ub \cup {"null_sol"} ELSE ub
    /\ stack' = [DropLast(stack) EXCEPT
                   ![Len(stack) - 1].pc = "negative",
                   ![Len(stack) - 1].dup_tab = Top.tab]
    /\ UNCHANGED <<bmap, phase, leaves, result, valVars, work,
                 tick>>

\* find_solutions returns to find_in_pos, which rolls the context back;
\* if the solution object was freed it reads the context through NULL
find_in_pos_return ==
    /\ At_pc("ret")
    /\ Len(stack) > 1
    /\ IF sol.null
       THEN /\ ub' = ub \cup {"null_sol"}
            /\ sol' = sol
            /\ \/ /\ phase' = "crashed"
                  /\ stack' = stack
               \/ /\ phase' = phase
                  /\ stack' = [DropLast(stack) EXCEPT
                                 ![Len(stack) - 1].pc = "negative",
                                 ![Len(stack) - 1].dup_tab = Top.tab]
       ELSE /\ sol' = [sol EXCEPT !.context_tab =
                          isl_tab_rollback(sol.context_tab, Caller.snap)]
            /\ stack' = [DropLast(stack) EXCEPT
                           ![Len(stack) - 1].pc = "negative",
                           ![Len(stack) - 1].dup_tab = Top.tab]
            /\ UNCHANGED <<phase, ub>>
    /\ UNCHANGED <<bmap, leaves, result, valVars, work,
                 tick>>

\* after find_in_pos: the row is negative and the negation of the
\* inequality goes to the context; if the solution object was freed the
\* context is read and written through a pointer into freed memory
find_solutions_negative ==
    /\ At_pc("negative")
    /\ \E nineq \in {NegateIneq(Top.ineq)} :
      \E tab0 \in {[Top.tab EXCEPT !.row_sign =
                       Upd(Top.tab.row_sign, Top.split, isl_tab_row_neg)]} :
      \E tab \in {restore_lexmin(tab0)} :
           IF sol.null
           THEN /\ ub' = ub \cup {"freed_sol"}
                /\ sol' = sol
                /\ \/ /\ phase' = "crashed"
                      /\ stack' = stack
                   \/ /\ phase' = phase
                      /\ stack' = SetTop([Top EXCEPT !.tab = tab0,
                                                     !.pc = "ret"])
           ELSE /\ sol' = [sol EXCEPT !.context_tab =
                             check_samples(
                                 add_lexmin_ineq(sol.context_tab, nineq),
                                 nineq, FALSE)]
                /\ stack' = SetTop([Top EXCEPT
                                      !.tab = tab,
                                      !.pc = LoopPc(tab),
                                      !.path = Append(Top.path,
                                                      Step(Top.ineq, "neg"))])
                /\ UNCHANGED <<phase, ub>>
    /\ UNCHANGED <<bmap, leaves, result, valVars, work,
                 tick>>


\* the row of the first output that is not integral where the parameters
\* are
CutRow == first_non_integer(Top.tab)

\* no output needs a cut: the loop ends
find_solutions_integral ==
    /\ At_pc("integer")
    /\ Top.tab.rational \/ CutRow < 0
    /\ stack' = SetTop([Top EXCEPT !.pc = "done"])
    /\ UNCHANGED <<bmap, phase, sol, leaves, result, ub, valVars, work,
                 tick>>

\* a row with integral coefficients and a constant that is not: no
\* integral solution
find_solutions_mark_empty ==
    /\ At_pc("integer")
    /\ ~Top.tab.rational /\ CutRow >= 0
    /\ I_PAR(Top.tab, CutRow) /\ I_VAR(Top.tab, CutRow)
    /\ stack' = SetTop([Top EXCEPT !.tab = isl_tab_mark_empty(Top.tab),
                                   !.pc = "done"])
    /\ UNCHANGED <<bmap, phase, sol, leaves, result, ub, valVars, work,
                 tick>>

\* find_solutions_cut that does not look at the coefficients of the
\* variables: it adds a cut also where they are all integral
find_solutions_cut_any ==
    /\ At_pc("integer")
    /\ ~Top.tab.rational /\ CutRow >= 0
    /\ I_PAR(Top.tab, CutRow)
    /\ \E tab \in {restore_lexmin(add_cut(Top.tab, CutRow))} :
           stack' = SetTop([Top EXCEPT !.tab = tab, !.pc = LoopPc(tab)])
    /\ UNCHANGED <<bmap, phase, sol, leaves, result, ub, valVars, work,
                 tick>>

\* a cut that does not involve the parameters
find_solutions_cut ==
    /\ At_pc("integer")
    /\ ~Top.tab.rational /\ CutRow >= 0
    /\ I_PAR(Top.tab, CutRow) /\ ~I_VAR(Top.tab, CutRow)
    /\ \E tab \in {restore_lexmin(add_cut(Top.tab, CutRow))} :
           stack' = SetTop([Top EXCEPT !.tab = tab, !.pc = LoopPc(tab)])
    /\ UNCHANGED <<bmap, phase, sol, leaves, result, ub, valVars, work,
                 tick>>

\* a row whose variables have integral coefficients: its parametric
\* constant has to be integral, so it becomes a div q; no solution where
\* the constant is not a multiple of the denominator
find_solutions_split_div ==
    /\ At_pc("integer")
    /\ ~Top.tab.rational /\ CutRow >= 0
    /\ ~I_PAR(Top.tab, CutRow) /\ I_VAR(Top.tab, CutRow)
    /\ \E row \in {CutRow} :
      \E g \in {get_div(Top.tab, sol.context_tab,
                        get_row_split_div(Top.tab, row))} :
      \E ineq \in {ineq_for_div(g.ctx.bset, g.ctx.n_var, g.d)} :
      \E n \in {no_sol_in_strict([sol EXCEPT !.context_tab = g.ctx], g.tab,
                                 ineq, Append(Top.path, Step(ineq, "strict")))} :
       LET nineq == isl_seq_neg(ineq) IN
      \E tab \in {restore_lexmin(set_row_cst_to_div(g.tab, row, g.d))} :
           IF g.d < 0
           THEN /\ sol' = FreeSol(sol)
                /\ stack' = SetTop([Top EXCEPT !.pc = "ret"])
                /\ UNCHANGED <<leaves, phase, ub>>
           ELSE IF n.sol.null
           THEN /\ ub' = ub \cup {"freed_sol"}
                /\ sol' = n.sol
                /\ leaves' = leaves \o n.leaves
                /\ \/ /\ phase' = "crashed"
                      /\ stack' = stack
                   \/ /\ phase' = phase
                      /\ stack' = SetTop([Top EXCEPT !.pc = "ret"])
           ELSE /\ sol' = [n.sol EXCEPT !.context_tab =
                             check_samples(
                                 add_lexmin_ineq(n.sol.context_tab, nineq),
                                 nineq, FALSE)]
                /\ leaves' = leaves \o n.leaves
                /\ stack' = SetTop([Top EXCEPT
                                      !.tab = tab,
                                      !.pc = LoopPc(tab),
                                      !.path = Append(Top.path,
                                                      Step(ineq, "div"))])
                /\ UNCHANGED <<phase, ub>>
    /\ UNCHANGED <<bmap, result, valVars, work,
                 tick>>

\* a cut that involves the parameters, with a new div in the context
find_solutions_parametric_cut ==
    /\ At_pc("integer")
    /\ ~Top.tab.rational /\ CutRow >= 0
    /\ ~I_PAR(Top.tab, CutRow) /\ ~I_VAR(Top.tab, CutRow)
    /\ \E r \in {add_parametric_cut(Top.tab, CutRow, sol.context_tab)} :
      \E tab \in {restore_lexmin(r.tab)} :
           IF ~r.ok
           THEN /\ sol' = FreeSol(sol)
                /\ stack' = SetTop([Top EXCEPT !.pc = "ret"])
           ELSE /\ sol' = [sol EXCEPT !.context_tab = r.ctx]
                /\ stack' = SetTop([Top EXCEPT !.tab = tab,
                                               !.pc = LoopPc(tab)])
    /\ UNCHANGED <<bmap, phase, leaves, result, ub, valVars, work,
                 tick>>

\* find_solutions_done that records its leaf before the leaves found
\* earlier
find_solutions_done_first ==
    /\ At_pc("done")
    /\ sol' = sol_add(sol, Top.tab)
    /\ leaves' = <<Leaf(sol, Top.tab, Top.path)>> \o leaves
    /\ stack' = SetTop([Top EXCEPT !.pc = "ret"])
    /\ UNCHANGED <<bmap, phase, result, ub, valVars, work,
                 tick>>

\* done: the solution of this part of the context goes to sol->add
find_solutions_done ==
    /\ At_pc("done")
    /\ sol' = sol_add(sol, Top.tab)
    /\ leaves' = Append(leaves, Leaf(sol, Top.tab, Top.path))
    /\ stack' = SetTop([Top EXCEPT !.pc = "ret"])
    /\ UNCHANGED <<bmap, phase, result, ub, valVars, work,
                 tick>>

\* what the entry point returns when the solution object is still there
Returned(s) ==
    IF s.kind = "map"
    THEN [ret |-> "map", map |-> s.map, empty |-> s.empty]
    ELSE [ret |-> "0", map |-> <<>>, empty |-> <<>>]

\* what the entry point returns at its label error
Failed(s) ==
    [ret |-> IF s.kind = "map" THEN "NULL" ELSE "-1", map |-> <<>>,
     empty |-> <<>>]

\* the entry point returns; at its label error it frees the solution
\* object through the NULL pointer it holds
lexopt_return ==
    /\ At_pc("ret")
    /\ Len(stack) = 1
    /\ IF sol.null
       THEN /\ ub' = ub \cup {"null_sol"}
            /\ \/ /\ phase' = "crashed"
                  /\ result' = result
               \/ /\ phase' = "returned"
                  /\ result' = Failed(sol)
       ELSE /\ phase' = "returned"
            /\ result' = Returned(sol)
            /\ ub' = ub
    /\ UNCHANGED <<bmap, sol, stack, leaves, valVars, work,
                 tick>>

\* no call of isl_tab_pip.c is under way
\* no tableau is being built
NoWork ==
    [pc |-> "off", kind |-> "none", tab |-> NullTab, ctx |-> NullTab,
     dom |-> NoBset, todo |-> <<>>, ret |-> "none", last |-> "none",
     row |-> -1, prev |-> NullTab, pivots |-> 0, rounds |-> 0,
     stage |-> 0, extra |-> <<>>, col |-> -1]

\* no call of the solver
PipQuiet ==
    /\ bmap = NoBmap
    /\ phase = "off"
    /\ sol = NoSol
    /\ stack = <<>>
    /\ leaves = <<>>
    /\ result = NoResult
    /\ ub = {}
    /\ tick = 0

PipOff ==
    /\ PipQuiet
    /\ work = NoWork

(***************************************************************************)
(* The caller of isl_val.c: two registers, every call replaces the first   *)
(* register by its result; Swap exchanges the registers.                   *)
(***************************************************************************)
NoOp == [op |-> "none", a |-> NULL, b |-> NULL, u |-> 0, res |-> NULL]

\* nothing evaluated yet: the values r and the truth values t of a law
NoOut == [op |-> "none", r |-> <<>>, t |-> <<>>]

InBounds(v) == isl_int_abs(v.n) <= MaxNum /\ isl_int_abs(v.d) <= MaxNum

Call(op, a, b, u, res) ==
    /\ ~crashed
    /\ InBounds(res)
    /\ v1' = res
    /\ lastOp' = [op |-> op, a |-> a, b |-> b, u |-> u, res |-> res]
    /\ UNCHANGED <<v2, crashed>>
    /\ UNCHANGED <<pipVars, lawVars, cowVars>>

\* no law of isl_val.c is being evaluated
LawOff ==
    /\ args = <<NULL, NULL, NULL>>
    /\ out = NoOut

\* no value object is allocated
CowOff ==
    /\ heap = <<>>
    /\ held = EmptyBag

InitVal ==
    /\ v1 = isl_val_zero
    /\ v2 = isl_val_one
    /\ lastOp = NoOp
    /\ crashed = FALSE
    /\ PipOff
    /\ LawOff
    /\ CowOff

Construct ==
    \E c \in {isl_val_zero, isl_val_one, isl_val_nan, isl_val_infty,
              isl_val_neginfty} \cup {isl_val_int_from_si(i) : i \in -MaxNum..MaxNum} :
        Call("construct", NULL, NULL, 0, c)

Swap ==
    /\ ~crashed
    /\ v1' = v2
    /\ v2' = v1
    /\ lastOp' = NoOp
    /\ UNCHANGED crashed
    /\ UNCHANGED <<pipVars, lawVars, cowVars>>

Neg == Call("neg", v1, NULL, 0, isl_val_neg(v1))

Abs == Call("abs", v1, NULL, 0, isl_val_abs(v1))

Floor == Call("floor", v1, NULL, 0, isl_val_floor(v1))

Ceil == Call("ceil", v1, NULL, 0, isl_val_ceil(v1))

Trunc == Call("trunc", v1, NULL, 0, isl_val_trunc(v1))

TwoExp ==
    /\ isl_val_is_int(v1) => isl_int_abs(v1.n) <= MaxExp
    /\ Call("2exp", v1, NULL, 0, isl_val_2exp(v1))

Add == Call("add", v1, v2, 0, isl_val_add(v1, v2))

Sub == Call("sub", v1, v2, 0, isl_val_sub(v1, v2))

Mul == Call("mul", v1, v2, 0, isl_val_mul(v1, v2))

Div == Call("div", v1, v2, 0, isl_val_div(v1, v2))

AddUi == \E u \in 0..MaxUi : Call("add_ui", v1, NULL, u, isl_val_add_ui(v1, u))

SubUi == \E u \in 0..MaxUi : Call("sub_ui", v1, NULL, u, isl_val_sub_ui(v1, u))

MulUi == \E u \in 0..MaxUi : Call("mul_ui", v1, NULL, u, isl_val_mul_ui(v1, u))

Mod ==
    /\ ~isl_val_mod_undefined(v1, v2)
    /\ Call("mod", v1, v2, 0, isl_val_mod(v1, v2))

ModUndefined ==
    /\ ~crashed
    /\ UNCHANGED <<pipVars, lawVars, cowVars>>
    /\ isl_val_mod_undefined(v1, v2)
    /\ \/ /\ crashed' = TRUE
          /\ lastOp' = [op |-> "mod", a |-> v1, b |-> v2, u |-> 0, res |-> NULL]
          /\ UNCHANGED <<v1, v2>>
       \/ \E r \in -1..1 :
             /\ v1' = Val(r, v1.d)
             /\ lastOp' = [op |-> "mod", a |-> v1, b |-> v2, u |-> 0,
                           res |-> Val(r, v1.d)]
             /\ UNCHANGED <<v2, crashed>>

Gcd == Call("gcd", v1, v2, 0, isl_val_gcd(v1, v2))

NextVal ==
    \/ Construct \/ Swap
    \/ Neg \/ Abs \/ Floor \/ Ceil \/ Trunc \/ TwoExp
    \/ Add \/ Sub \/ Mul \/ Div
    \/ AddUi \/ SubUi \/ MulUi
    \/ Mod \/ ModUndefined \/ Gcd

SpecVal == InitVal /\ [][NextVal]_vars

(***************************************************************************)
(* Claims about isl_val.c.                                                 *)
(***************************************************************************)
Finite(v) == ~v.null /\ v.d # 0

Canonical(v) == v.d >= 1 /\ isl_int_gcd(v.n, v.d) = 1

\* C9: every finite value that the constructors and the arithmetic
\* operations produce is in canonical form: its denominator is at least 1
\* and coprime with its numerator (so an integer has denominator 1).
C9_CanonicalForm ==
    /\ Finite(v1) => Canonical(v1)
    /\ Finite(v2) => Canonical(v2)
    /\ Finite(lastOp.res) => Canonical(lastOp.res)

\* a division whose raw quotient needed normalising has been performed
C9_Witness ==
    /\ lastOp.op = "div"
    /\ Finite(lastOp.a) /\ Finite(lastOp.b) /\ lastOp.b.n # 0
    /\ isl_int_gcd(lastOp.a.n * lastOp.b.d, lastOp.a.d * lastOp.b.n) > 1
    /\ Finite(lastOp.res)

BinaryOps == {"add", "sub", "mul", "div", "mod", "gcd"}

\* the last call was given values (no NULL) and one of them is NaN
NanOperand ==
    /\ ~lastOp.a.null
    /\ lastOp.op \in BinaryOps => ~lastOp.b.null
    /\ \/ isl_val_is_nan(lastOp.a)
       \/ (lastOp.op \in BinaryOps /\ isl_val_is_nan(lastOp.b))

ReturnsNan == ~lastOp.res.null /\ isl_val_is_nan(lastOp.res)

AbsorbingOps == {"neg", "abs", "floor", "ceil", "trunc", "add", "sub", "mul",
                 "div", "add_ui", "sub_ui", "mul_ui"}

IntegerOnlyOps == {"2exp", "mod", "gcd"}

\* C10 as stated: every arithmetic operation, 2exp, mod and gcd included,
\* returns NaN whenever one of its operands is NaN.
C10_NanAbsorbsAll ==
    (lastOp.op \in AbsorbingOps \cup IntegerOnlyOps /\ NanOperand) => ReturnsNan

\* C10 amended: neg, abs, floor, ceil, trunc, add, sub, mul, div and the
\* unsigned-long variants return NaN whenever an operand is NaN; 2exp, mod
\* and gcd accept integers only and fail (return NULL) on a NaN operand.
C10_NanAbsorbs ==
    /\ (lastOp.op \in AbsorbingOps /\ NanOperand) => ReturnsNan
    /\ (lastOp.op \in IntegerOnlyOps /\ NanOperand) => lastOp.res.null

\* an addition of NaN to a number has been performed
C10_Witness ==
    /\ lastOp.op = "add"
    /\ isl_val_is_nan(lastOp.a) /\ ~lastOp.a.null
    /\ Finite(lastOp.b)
    /\ ReturnsNan


\* an infinite value: d = 0 and n # 0
Infinite(v) == ~v.null /\ v.d = 0 /\ v.n # 0

\* the last call was one of the indeterminate forms: inf - inf,
\* inf + (-inf), 0 * inf, inf / inf, or x / 0 with x not NaN
Indeterminate ==
    LET a == lastOp.a
        b == lastOp.b
    IN  /\ ~a.null /\ ~b.null
        /\ \/ /\ lastOp.op = "sub"
              /\ Infinite(a) /\ Infinite(b) /\ a.n * b.n > 0
           \/ /\ lastOp.op = "add"
              /\ Infinite(a) /\ Infinite(b) /\ a.n * b.n < 0
           \/ /\ lastOp.op = "mul"
              /\ \/ (Finite(a) /\ a.n = 0 /\ Infinite(b))
                 \/ (Infinite(a) /\ Finite(b) /\ b.n = 0)
           \/ /\ lastOp.op = "div"
              /\ \/ (Infinite(a) /\ Infinite(b))
                 \/ (~(a.n = 0 /\ a.d = 0) /\ Finite(b) /\ b.n = 0)

\* C11: indeterminate forms.  isl_val_sub of two infinities of the same
\* sign, isl_val_add of two infinities of opposite signs, isl_val_mul of
\* zero and an infinity, isl_val_div of two infinities, and isl_val_div of
\* any value that is not NaN by zero all return NaN.
C11_IndeterminateNan == Indeterminate => ReturnsNan

\* a number that is not zero has been divided by zero
C11_Witness ==
    /\ lastOp.op = "div"
    /\ Finite(lastOp.a) /\ lastOp.a.n # 0
    /\ Finite(lastOp.b) /\ lastOp.b.n = 0
    /\ Indeterminate
    /\ ReturnsNan


(***************************************************************************)
(* The laws of isl_val.c: the operands a, b, c are any three values, each  *)
(* action evaluates the calls of one law on them.                          *)
(***************************************************************************)
MaxLawNum == 3    \* the largest absolute value of an operand's numerator

MaxLawDen == 3    \* the largest denominator of an operand

LawValues ==
    {Val(q[1], q[2]) :
        q \in {p \in (-MaxLawNum..MaxLawNum) \X (1..MaxLawDen) :
                  isl_int_gcd(p[1], p[2]) = 1}}
        \cup {isl_val_infty, isl_val_neginfty, isl_val_nan}

InitLaw ==
    /\ args \in LawValues \X LawValues \X LawValues
    /\ out = NoOut
    /\ v1 = isl_val_zero
    /\ v2 = isl_val_one
    /\ lastOp = NoOp
    /\ crashed = FALSE
    /\ PipOff
    /\ CowOff

\* the calls of a law returned the values r and the truth values t
Law(op, r, t) ==
    /\ out = NoOut
    /\ out' = [op |-> op, r |-> r, t |-> t]
    /\ UNCHANGED <<args, v1, v2, lastOp, crashed>>
    /\ UNCHANGED <<pipVars, cowVars>>

\* a + b, b + a, (a + b) + c, a + (b + c), a + 0
LawAdd ==
    \E a \in {args[1]}, b \in {args[2]}, c \in {args[3]} :
        Law("add",
            <<isl_val_add(a, b), isl_val_add(b, a),
              isl_val_add(isl_val_add(a, b), c),
              isl_val_add(a, isl_val_add(b, c)),
              isl_val_add(a, isl_val_zero)>>, <<>>)

\* a * b, b * a, a * 1
LawMul ==
    \E a \in {args[1]}, b \in {args[2]} :
        Law("mul",
            <<isl_val_mul(a, b), isl_val_mul(b, a),
              isl_val_mul(a, isl_val_one)>>, <<>>)

\* floor(a), floor(a) + 1, ceil(-a), -floor(a); floor(a) <= a,
\* a < floor(a) + 1
LawFloor ==
    \E a \in {args[1]} :
    \E f \in {isl_val_floor(a)} :
    \E f1 \in {isl_val_add(f, isl_val_one)} :
        Law("floor",
            <<f, f1, isl_val_ceil(isl_val_neg(a)), isl_val_neg(f)>>,
            <<isl_val_le(f, a), isl_val_lt(a, f1)>>)

\* isl_val_is_one(a)
LawIsOne == Law("is_one", <<>>, <<isl_val_is_one(args[1])>>)

\* isl_val_gcd(a, b) and isl_val_gcdext(a, b, &x, &y) on copies of a and b
LawGcd ==
    \E e \in isl_int_gcdext(args[1].n, args[2].n) :
        \E r \in {isl_val_gcdext(args[1], args[2], e)} :
            Law("gcd", <<isl_val_gcd(args[1], args[2]), r.g, r.x, r.y>>,
                <<>>)

NextLaw == LawAdd \/ LawMul \/ LawFloor \/ LawIsOne \/ LawGcd

SpecLaw == InitLaw /\ [][NextLaw]_vars

\* none of the operands a, b, c is NaN (or NULL)
NoNanArgs ==
    \A i \in 1..3 : ~args[i].null /\ ~(args[i].n = 0 /\ args[i].d = 0)

\* C12: the laws of addition and multiplication.  For values a, b, c that
\* are not NaN, a + b and b + a are the same pair (n, d), and so are a * b
\* and b * a, (a + b) + c and a + (b + c), a + 0 and a, a * 1 and a.
C12_AddMulLaws ==
    NoNanArgs =>
        /\ out.op = "add" =>
              /\ out.r[1] = out.r[2]
              /\ out.r[3] = out.r[4]
              /\ out.r[5] = args[1]
        /\ out.op = "mul" =>
              /\ out.r[1] = out.r[2]
              /\ out.r[3] = args[1]

\* three fractions with different denominators have been added
C12_Witness ==
    /\ out.op = "add"
    /\ NoNanArgs
    /\ args[1].d = 2 /\ args[2].d = 3 /\ args[3].d = 1 /\ args[3].n # 0
    /\ Finite(out.r[3]) /\ out.r[3] = out.r[4]
    /\ out.r[1] = out.r[2] /\ out.r[1].d = 6


\* C13 as stated: for every value v, NaN and the infinities included,
\* floor(v) <= v and v < floor(v) + 1 hold and ceil(-v) is -floor(v).
C13_FloorBoundsAll ==
    (out.op = "floor" /\ ~args[1].null) =>
        /\ out.t[1]
        /\ out.t[2]
        /\ out.r[3] = out.r[4]

\* C13 amended: for every finite value v, isl_val_le(floor(v), v) and
\* isl_val_lt(v, floor(v) + 1) hold; for every value v, ceil(-v) and
\* -floor(v) are the same pair (n, d).
C13_FloorBounds ==
    (out.op = "floor" /\ ~args[1].null) =>
        /\ Finite(args[1]) => (out.t[1] /\ out.t[2])
        /\ out.r[3] = out.r[4]

\* the floor of a negative fraction has been taken
C13_Witness ==
    /\ out.op = "floor"
    /\ Finite(args[1]) /\ args[1].n < 0 /\ args[1].d > 1
    /\ out.r[1].d = 1 /\ out.r[1].n * args[1].d < args[1].n
    /\ out.t[1] /\ out.t[2]


\* C15: isl_val_is_one(v) is true exactly when v has n = 1 and d = 1, for
\* every value v, NaN and the two infinities included.
C15_IsOneExact ==
    out.op = "is_one" => (out.t[1] <=> (args[1].n = 1 /\ args[1].d = 1))

\* isl_val_is_one compares n with d: it is true of NaN, whose n and d are 0
C15_IsOneOfNan ==
    out.op = "is_one" /\ isl_val_is_nan(args[1]) /\ out.t[1]


\* C16: for integers v1 and v2 isl_val_gcd returns the non-negative
\* greatest common divisor, the same value g that isl_val_gcdext returns
\* together with integers x and y such that x * v1 + y * v2 = g.
C16_GcdAgrees ==
    (out.op = "gcd" /\ isl_val_is_int(args[1]) /\ isl_val_is_int(args[2]))
        => /\ ~out.r[1].null /\ ~out.r[2].null
           /\ isl_val_is_int(out.r[1])
           /\ out.r[1].n = isl_int_gcd(args[1].n, args[2].n)
           /\ out.r[1] = out.r[2]
           /\ isl_val_is_int(out.r[3]) /\ isl_val_is_int(out.r[4])
           /\ out.r[3].n * args[1].n + out.r[4].n * args[2].n = out.r[2].n

\* two equal negative integers: isl_val_gcd hands back its first operand
C16_GcdNegative ==
    /\ out.op = "gcd"
    /\ isl_val_is_int(args[1]) /\ args[1] = args[2]
    /\ out.r[1].n < 0 /\ out.r[2].n > 0


\* C17: isl_val_mod is total on integers.  For integers v1 and v2 it
\* returns an integer r such that v2 divides v1 - r, and no pair of
\* integers leads it to an undefined operation.
C17_ModTotal ==
    (lastOp.op = "mod" /\ ~lastOp.a.null /\ ~lastOp.b.null
     /\ isl_val_is_int(lastOp.a) /\ isl_val_is_int(lastOp.b))
        => /\ ~isl_val_mod_undefined(lastOp.a, lastOp.b)
           /\ ~crashed
           /\ ~lastOp.res.null
           /\ isl_val_is_int(lastOp.res)
           /\ isl_int_is_divisible_by(lastOp.a.n - lastOp.res.n, lastOp.b.n)

\* isl_val_mod of an integer by 0 got as far as the division
C17_ModByZero ==
    /\ lastOp.op = "mod"
    /\ isl_val_is_int(lastOp.a) /\ isl_val_is_zero(lastOp.b)
    /\ crashed


(***************************************************************************)
(* The value objects of isl_val.c.  An object has the fields n, d and ref  *)
(* of struct isl_val; live is false once free() was called on it, shared   *)
(* records that n or d was written while ref was not 1, and from is the    *)
(* object isl_val_dup copied it from (0 for an object of a constructor).   *)
(* A reference the caller holds is the object it points to together with   *)
(* the value the caller got with it; held is the bag of them.              *)
(***************************************************************************)
MaxObj == 3       \* the objects allocated in one run

MaxHeld == 3      \* the references the caller holds at one time

MaxCowInt == 1    \* the integers given to isl_val_int_from_si

MaxCowNum == 3    \* numerators and denominators kept by the objects

Obj(n, d, from) ==
    [n |-> n, d |-> d, ref |-> 1, live |-> TRUE, shared |-> FALSE,
     from |-> from]

\* the value of object o
ValOf(h, o) == Val(h[o].n, h[o].d)

\* a reference to object o, taken now
Ref(h, o) == [obj |-> o, n |-> h[o].n, d |-> h[o].d]

\* isl_val_alloc and the assignment of n and d by a constructor
isl_val_alloc(h, v) == Append(h, Obj(v.n, v.d, 0))

isl_val_copy(h, o) == [h EXCEPT ![o].ref = @ + 1]

\* o = 0 stands for no object; isl_int_clear leaves no n and no d
isl_val_free(h, o) ==
    IF o = 0 THEN h
    ELSE IF h[o].ref - 1 > 0 THEN [h EXCEPT ![o].ref = @ - 1]
    ELSE [h EXCEPT ![o].ref = @ - 1, ![o].live = FALSE,
                   ![o].n = 0, ![o].d = 0]

isl_val_dup(h, o) == Append(h, Obj(h[o].n, h[o].d, o))

\* isl_val_cow that hands out the object itself, whatever its count
isl_val_cow_shared(h, o) == [heap |-> h, obj |-> o]

\* isl_val_cow: the heap it leaves and the object it returns
isl_val_cow(h, o) ==
    IF h[o].ref = 1 THEN [heap |-> h, obj |-> o]
    ELSE [heap |-> isl_val_dup([h EXCEPT ![o].ref = @ - 1], o),
          obj |-> Len(h) + 1]

\* the assignments to v->n and v->d that follow isl_val_cow in a function
CowWrite(h, o, v) ==
    [h EXCEPT ![o].n = v.n, ![o].d = v.d,
              ![o].shared = (h[o].shared \/ h[o].ref # 1)]

UnaryOps == {"neg", "abs", "floor", "ceil", "trunc", "2exp", "add_ui",
             "sub_ui", "mul_ui"}

\* the value a function of one operand returns
ValUnary(op, a, u) ==
    CASE op = "neg" -> isl_val_neg(a)
      [] op = "abs" -> isl_val_abs(a)
      [] op = "floor" -> isl_val_floor(a)
      [] op = "ceil" -> isl_val_ceil(a)
      [] op = "trunc" -> isl_val_trunc(a)
      [] op = "2exp" -> isl_val_2exp(a)
      [] op = "add_ui" -> isl_val_add_ui(a, u)
      [] op = "sub_ui" -> isl_val_sub_ui(a, u)
      [] op = "mul_ui" -> isl_val_mul_ui(a, u)

\* does the function get as far as its call of isl_val_cow (for mul_ui of
\* an infinity by 0: the call in isl_val_set_nan)
UnaryCows(op, a, u) ==
    CASE op = "neg" -> ~isl_val_is_nan(a) /\ ~isl_val_is_zero(a)
      [] op = "abs" -> ~isl_val_is_nan(a) /\ ~isl_val_is_nonneg(a)
      [] op \in {"floor", "ceil", "trunc"} ->
            ~isl_val_is_int(a) /\ isl_val_is_rat(a)
      [] op = "2exp" -> TRUE
      [] op \in {"add_ui", "sub_ui"} -> isl_val_is_rat(a) /\ u # 0
      [] op = "mul_ui" ->
            IF isl_val_is_nan(a) THEN FALSE
            ELSE IF ~isl_val_is_rat(a) THEN u = 0
            ELSE u # 1

\* the heap and the object returned (0 for NULL) by a function of one
\* operand called on object o
RunUnary(h, op, o, u) ==
    LET a == ValOf(h, o)
        res == ValUnary(op, a, u)
    IN  IF ~UnaryCows(op, a, u) THEN [heap |-> h, obj |-> o]
        ELSE LET c == isl_val_cow(h, o)
             IN  IF res.null
                 THEN [heap |-> isl_val_free(c.heap, c.obj), obj |-> 0]
                 ELSE [heap |-> CowWrite(c.heap, c.obj, res), obj |-> c.obj]

\* the value a function of two operands returns
ValBinary(op, a, b) ==
    CASE op = "add" -> isl_val_add(a, b)
      [] op = "sub" -> isl_val_sub(a, b)
      [] op = "mul" -> isl_val_mul(a, b)
      [] op = "div" -> isl_val_div(a, b)
      [] op = "mod" -> isl_val_mod(a, b)
      [] op = "gcd" -> isl_val_gcd(a, b)

\* what a function of two operands does with its objects: keep is the
\* operand whose object carries the result, cow says that isl_val_cow is
\* called on it (directly, or in isl_val_neg, isl_val_set_nan or
\* isl_val_set_zero), early that the other operand is freed before that
Plan(keep, cow, early) == [keep |-> keep, cow |-> cow, early |-> early]

BothInfty(a, b) ==
    (isl_val_is_infty(a) \/ isl_val_is_neginfty(a))
    /\ (isl_val_is_infty(b) \/ isl_val_is_neginfty(b))

BinaryPlan(op, a, b) ==
    CASE op = "add" ->
            IF isl_val_is_nan(a) THEN Plan(1, FALSE, TRUE)
            ELSE IF isl_val_is_nan(b) THEN Plan(2, FALSE, TRUE)
            ELSE IF (isl_val_is_infty(a) /\ isl_val_is_neginfty(b))
                    \/ (isl_val_is_neginfty(a) /\ isl_val_is_infty(b))
                 THEN Plan(1, TRUE, TRUE)
            ELSE IF isl_val_is_infty(a) \/ isl_val_is_neginfty(a)
                 THEN Plan(1, FALSE, TRUE)
            ELSE IF isl_val_is_infty(b) \/ isl_val_is_neginfty(b)
                 THEN Plan(2, FALSE, TRUE)
            ELSE IF isl_val_is_zero(a) THEN Plan(2, FALSE, TRUE)
            ELSE IF isl_val_is_zero(b) THEN Plan(1, FALSE, TRUE)
            ELSE Plan(1, TRUE, FALSE)
      [] op = "sub" ->
            IF isl_val_is_nan(a) THEN Plan(1, FALSE, TRUE)
            ELSE IF isl_val_is_nan(b) THEN Plan(2, FALSE, TRUE)
            ELSE IF (isl_val_is_infty(a) /\ isl_val_is_infty(b))
                    \/ (isl_val_is_neginfty(a) /\ isl_val_is_neginfty(b))
                 THEN Plan(1, TRUE, TRUE)
            ELSE IF isl_val_is_infty(a) \/ isl_val_is_neginfty(a)
                 THEN Plan(1, FALSE, TRUE)
            ELSE IF isl_val_is_infty(b) \/ isl_val_is_neginfty(b)
                 THEN Plan(2, TRUE, TRUE)
            ELSE IF isl_val_is_zero(b) THEN Plan(1, FALSE, TRUE)
            ELSE IF isl_val_is_zero(a) THEN Plan(2, TRUE, TRUE)
            ELSE Plan(1, TRUE, FALSE)
      [] op = "mul" ->
            IF isl_val_is_nan(a) THEN Plan(1, FALSE, TRUE)
            ELSE IF isl_val_is_nan(b) THEN Plan(2, FALSE, TRUE)
            ELSE IF (~isl_val_is_rat(a) /\ isl_val_is_zero(b))
                    \/ (isl_val_is_zero(a) /\ ~isl_val_is_rat(b))
                 THEN Plan(1, TRUE, TRUE)
            ELSE IF isl_val_is_zero(a) THEN Plan(1, FALSE, TRUE)
            ELSE IF isl_val_is_zero(b) THEN Plan(2, FALSE, TRUE)
            ELSE IF isl_val_is_infty(a) \/ isl_val_is_neginfty(a)
                 THEN Plan(1, isl_val_is_neg(b), FALSE)
            ELSE IF isl_val_is_infty(b) \/ isl_val_is_neginfty(b)
                 THEN Plan(2, isl_val_is_neg(a), FALSE)
            ELSE Plan(1, TRUE, FALSE)
      [] op = "div" ->
            IF isl_val_is_nan(a) THEN Plan(1, FALSE, TRUE)
            ELSE IF isl_val_is_nan(b) THEN Plan(2, FALSE, TRUE)
            ELSE IF isl_val_is_zero(b) \/ BothInfty(a, b)
                 THEN Plan(1, TRUE, TRUE)
            ELSE IF isl_val_is_zero(a) THEN Plan(1, FALSE, TRUE)
            ELSE IF isl_val_is_infty(a) \/ isl_val_is_neginfty(a)
                 THEN Plan(1, isl_val_is_neg(b), FALSE)
            ELSE IF isl_val_is_infty(b) \/ isl_val_is_neginfty(b)
                 THEN Plan(1, TRUE, TRUE)
            ELSE Plan(1, TRUE, FALSE)
      [] op = "mod" ->
            IF isl_val_is_nonneg(a) /\ isl_val_lt(a, b)
            THEN Plan(1, FALSE, TRUE)
            ELSE Plan(1, TRUE, FALSE)
      [] op = "gcd" ->
            IF isl_val_eq(a, b) THEN Plan(1, FALSE, TRUE)
            ELSE IF isl_val_is_one(a) THEN Plan(1, FALSE, TRUE)
            ELSE IF isl_val_is_one(b) THEN Plan(2, FALSE, TRUE)
            ELSE Plan(1, TRUE, FALSE)

\* the heap and the object returned (0 for NULL) by a function of two
\* operands called on the objects o1 and o2
RunBinary(h, op, o1, o2) ==
    LET a == ValOf(h, o1)
        b == ValOf(h, o2)
        res == ValBinary(op, a, b)
        p == BinaryPlan(op, a, b)
        k == IF p.keep = 1 THEN o1 ELSE o2
        x == IF p.keep = 1 THEN o2 ELSE o1
    IN  IF res.null
        THEN [heap |-> isl_val_free(isl_val_free(h, o1), o2), obj |-> 0]
        ELSE IF ~p.cow THEN [heap |-> isl_val_free(h, x), obj |-> k]
        ELSE IF p.early
        THEN LET c == isl_val_cow(isl_val_free(h, x), k)
             IN  [heap |-> CowWrite(c.heap, c.obj, res), obj |-> c.obj]
        ELSE LET c == isl_val_cow(h, k)
             IN  [heap |-> isl_val_free(CowWrite(c.heap, c.obj, res), x),
                  obj |-> c.obj]

\* the bag of references held, without reference e
Unhold(s, e) == s (-) SetToBag({e})

\* the caller receives object o (0 for NULL) of heap h
Hold(s, h, o) == IF o = 0 THEN s ELSE s (+) SetToBag({Ref(h, o)})

\* the number of references held to object o
Holders(s, o) ==
    BagCardinality([e \in {x \in BagToSet(s) : x.obj = o} |-> s[e]])

CowValues ==
    {isl_val_int_from_si(i) : i \in -MaxCowInt..MaxCowInt}
        \cup {isl_val_nan, isl_val_infty, isl_val_neginfty}

CowInBounds(h) ==
    /\ Len(h) <= MaxObj
    /\ \A o \in 1..Len(h) :
          isl_int_abs(h[o].n) <= MaxCowNum /\ isl_int_abs(h[o].d) <= MaxCowNum

InitCow ==
    /\ CowOff
    /\ v1 = isl_val_zero
    /\ v2 = isl_val_one
    /\ lastOp = NoOp
    /\ crashed = FALSE
    /\ LawOff
    /\ PipOff

CowStep(h, s) ==
    /\ CowInBounds(h)
    /\ BagCardinality(s) <= MaxHeld
    /\ heap' = h
    /\ held' = s
    /\ UNCHANGED <<v1, v2, lastOp, crashed, lawVars, pipVars>>

\* isl_val_int_from_si, isl_val_nan, isl_val_infty, isl_val_neginfty
CowConstruct ==
    \E v \in CowValues :
        \E h \in {isl_val_alloc(heap, v)} :
            CowStep(h, Hold(held, h, Len(h)))

CowCopy ==
    \E e \in BagToSet(held) :
        \E h \in {isl_val_copy(heap, e.obj)} :
            CowStep(h, Hold(held, h, e.obj))

CowFree ==
    \E e \in BagToSet(held) :
        CowStep(isl_val_free(heap, e.obj), Unhold(held, e))

CowUnary ==
    \E e \in BagToSet(held), op \in UnaryOps, u \in 0..MaxUi :
        /\ op = "2exp" => isl_int_abs(heap[e.obj].n) <= MaxExp
        /\ \E r \in {RunUnary(heap, op, e.obj, u)} :
              CowStep(r.heap, Hold(Unhold(held, e), r.heap, r.obj))

CowBinary ==
    \E e1 \in BagToSet(held), op \in BinaryOps :
        \E e2 \in BagToSet(Unhold(held, e1)) :
            /\ op = "mod" =>
                  ~isl_val_mod_undefined(ValOf(heap, e1.obj),
                                         ValOf(heap, e2.obj))
            /\ \E r \in {RunBinary(heap, op, e1.obj, e2.obj)} :
                  CowStep(r.heap,
                          Hold(Unhold(Unhold(held, e1), e2), r.heap, r.obj))

NextCow == CowConstruct \/ CowCopy \/ CowFree \/ CowUnary \/ CowBinary

SpecCow == InitCow /\ [][NextCow]_vars

\* C14: copy-on-write.  No object had its n or d written while its count
\* was not 1; the value read through every reference the caller still
\* holds is the value it had when the reference was taken; an object's
\* count is the number of references held to it and the object is
\* released exactly when that count has reached 0.
C14_CopyOnWrite ==
    /\ \A e \in BagToSet(held) :
          /\ heap[e.obj].live
          /\ heap[e.obj].n = e.n
          /\ heap[e.obj].d = e.d
    /\ \A o \in 1..Len(heap) :
          /\ ~heap[o].shared
          /\ heap[o].ref = Holders(held, o)
          /\ heap[o].live <=> heap[o].ref > 0

\* an arithmetic operation was applied through one reference of a shared
\* object: the copy it wrote to has another value than the object it was
\* copied from, which is still held; and some object was released
C14_Witness ==
    /\ \E e1 \in BagToSet(held), e2 \in BagToSet(held) :
          /\ heap[e1.obj].from = e2.obj
          /\ ValOf(heap, e1.obj) # ValOf(heap, e2.obj)
    /\ \E o \in 1..Len(heap) : ~heap[o].live


(***************************************************************************)
(* The program: a call of one of the two entry points on a basic map.      *)
(***************************************************************************)
\* no call of isl_val.c is under way
ValOff ==
    /\ v1 = isl_val_zero
    /\ v2 = isl_val_one
    /\ lastOp = NoOp
    /\ crashed = FALSE
    /\ LawOff
    /\ CowOff

Init ==
    /\ bmap \in Problems
    /\ phase = "idle"
    /\ sol = NoSol
    /\ stack = <<>>
    /\ leaves = <<>>
    /\ result = NoResult
    /\ ub = {}
    /\ work = NoWork
    /\ tick = 0
    /\ ValOff

Next ==
    \/ isl_tab_basic_map_partial_lexopt
    \/ isl_basic_map_foreach_lexopt
    \/ find_solutions_main
    \/ find_solutions_entry
    \/ find_solutions_signs
    \/ find_solutions_pivot
    \/ find_in_pos
    \/ find_in_pos_return
    \/ find_solutions_negative
    \/ find_solutions_integral
    \/ find_solutions_mark_empty
    \/ find_solutions_cut
    \/ find_solutions_split_div
    \/ find_solutions_parametric_cut
    \/ find_solutions_done
    \/ lexopt_return

Spec == Init /\ [][Next]_vars


(***************************************************************************)
(* The meaning of the constraints at integer points: the points of a basic *)
(* set, with the values of its divs, the points of the basic map, and the  *)
(* value of a piece.                                                       *)
(***************************************************************************)
\* the parameter points looked at are those of absolute value up to PMax
PMax == 3

\* a bound on the absolute value of the outputs looked at, large enough
\* for the optimum of every basic map of the family at these parameters
XMax == MaxCoef * (MaxCst + PMax)

ParamPoints == {<<p>> : p \in -PMax..PMax}

OutPoints ==
    IF bmap.n_out = 1 THEN {<<x>> : x \in -XMax..XMax}
    ELSE {<<x, y>> : x \in -XMax..XMax, y \in -XMax..XMax}

\* the value of a constraint at the point pt = (1, coordinates)
ValueAt(vec, pt) == isl_seq_inner_product(vec, pt, Len(vec))

\* the point (1, ps, divs) with the divs from number i on set to the
\* values their definitions give them
RECURSIVE WithDivs(_, _, _)
WithDivs(bset, pt, i) ==
    IF i >= bset.n_div THEN pt
    ELSE LET dv == At(bset.div, i)
             num == ValueAt(SubSeq(dv, 2, Len(dv)), pt)
         IN  WithDivs(bset,
                      Upd(pt, Len(pt) - bset.n_div + i,
                          isl_int_fdiv_q(num, dv[1])),
                      i + 1)

ExtPoint(bset, ps) == WithDivs(bset, <<1>> \o ps \o Zeros(bset.n_div), 0)

\* ps is a point of the basic set
InBset(bset, ps) ==
    /\ ~bset.empty
    /\ \A i \in 1..Len(bset.ineq) :
          ValueAt(bset.ineq[i], ExtPoint(bset, ps)) >= 0
    /\ \A i \in 1..Len(bset.eq) :
          ValueAt(bset.eq[i], ExtPoint(bset, ps)) = 0

\* (ps, xs) is a point of the basic map
InR(ps, xs) ==
    /\ ~bmap.empty
    /\ \A i \in 1..Len(bmap.ineq) : ValueAt(bmap.ineq[i], <<1>> \o ps \o xs) >= 0
    /\ \A i \in 1..Len(bmap.eq) : ValueAt(bmap.eq[i], <<1>> \o ps \o xs) = 0

\* the outputs of a piece at ps are integers
PieceIntegral(piece, ps) ==
    \A k \in 1..Len(piece.out) :
        isl_int_is_divisible_by(
            ValueAt(piece.out[k].line, ExtPoint(piece.dom, ps)),
            piece.out[k].d)

\* the outputs of a piece at ps
PieceValue(piece, ps) ==
    [k \in 1..Len(piece.out) |->
        ValueAt(piece.out[k].line, ExtPoint(piece.dom, ps))
            \div piece.out[k].d]

\* xs comes before ys in the lexicographic order
LexLess(xs, ys) ==
    \E k \in 1..Len(xs) :
        /\ xs[k] < ys[k]
        /\ \A j \in 1..(k - 1) : xs[j] = ys[j]

\* ys is a better point than xs: smaller for a minimum, larger for a
\* maximum
Better(ys, xs, max) == IF max THEN LexLess(xs, ys) ELSE LexLess(ys, xs)

\* sgn vec + cst
Affine(vec, sgn, cst) ==
    [k \in 1..Len(vec) |-> IF k = 1 THEN sgn * vec[1] + cst ELSE sgn * vec[k]]

\* the constraint a decision puts in the context: ineq >= 0 on the
\* positive side of a split, -ineq - 1 >= 0 on the negative side,
\* ineq - 1 >= 0 and -ineq - 1 >= 0 where an equality does not hold,
\* ineq = 0 where it holds, -ineq >= 0 for the upper bound of a div
StepVec(step) ==
    IF step.side = "pos" \/ step.side = "eq" THEN step.ineq
    ELSE IF step.side = "strict" THEN Affine(step.ineq, 1, -1)
    ELSE IF step.side = "div" THEN Affine(step.ineq, -1, 0)
    ELSE Affine(step.ineq, -1, -1)

\* vec with zeros for the divs added after it
Padded(vec, n) == [k \in 1..n |-> IF k <= Len(vec) THEN vec[k] ELSE 0]

\* the domain of the leaf has the constraints of the decisions that led to
\* it
PathInDom(leaf) ==
    \A k \in 1..Len(leaf.path) :
        LET step == leaf.path[k]
            cs == IF step.side = "eq" THEN leaf.dom.eq ELSE leaf.dom.ineq
        IN  \E i \in 1..Len(cs) :
               cs[i] = Padded(StepVec(step), Len(cs[i]))

\* where a side comes in the order of the traversal
SideRank(side) ==
    IF side = "pos" \/ side = "strict" THEN 0
    ELSE IF side = "strict2" THEN 1
    ELSE 2

\* leaf a is on an earlier branch than leaf b: where their paths part,
\* they decide on the same vector and a takes the earlier side
EarlierBranch(a, b) ==
    \E k \in 1..Len(a.path) :
        /\ k <= Len(b.path)
        /\ \A j \in 1..(k - 1) : a.path[j] = b.path[j]
        /\ a.path[k].ineq = b.path[k].ineq
        /\ SideRank(a.path[k].side) < SideRank(b.path[k].side)


(***************************************************************************)
(* Claims about isl_tab_pip.c                                              *)
(***************************************************************************)
\* isl_tab_basic_map_partial_lexopt has returned a map
ReturnedMap == phase = "returned" /\ result.ret = "map"

Pieces == {result.map[i] : i \in 1..Len(result.map)}

NoSolution == {result.empty[i] : i \in 1..Len(result.empty)}

Leaves == {leaves[i] : i \in 1..Len(leaves)}

\* C1: minimality.  At every integer parameter point of a piece that
\* isl_tab_basic_map_partial_lexopt returned, the value of the piece is an
\* integer tuple, it is a point of the basic map, and no integer tuple of
\* the basic map at that parameter point is lexicographically smaller
\* (larger when max is set).
C1_Minimality ==
    ReturnedMap =>
        \A piece \in Pieces : \A ps \in ParamPoints :
            InBset(piece.dom, ps) =>
                /\ PieceIntegral(piece, ps)
                /\ InR(ps, PieceValue(piece, ps))
                /\ \A ys \in OutPoints :
                      Better(ys, PieceValue(piece, ps), sol.max)
                          => ~InR(ps, ys)

\* a map of several pieces was returned, one of them with a div in its
\* domain and a parameter point where its value is not zero
C1_Witness ==
    /\ ReturnedMap
    /\ Len(result.map) >= 2
    /\ \E piece \in Pieces : \E ps \in ParamPoints :
          /\ piece.dom.n_div >= 1
          /\ InBset(piece.dom, ps)
          /\ PieceValue(piece, ps)[1] # 0

\* C2: completeness.  After isl_tab_basic_map_partial_lexopt returns with
\* the set without solution tracked, the integer points of the domain are
\* exactly the points of the pieces and of the set without solution.
C2_Completeness ==
    (ReturnedMap /\ sol.track_empty) =>
        \A ps \in ParamPoints :
            InBset(sol.dom, ps) <=>
                \/ \E piece \in Pieces : InBset(piece.dom, ps)
                \/ \E e \in NoSolution : InBset(e, ps)

\* the domain is covered by pieces and by sets without solution, both
\* with points in them
C2_Witness ==
    /\ ReturnedMap
    /\ sol.track_empty
    /\ \E piece \in Pieces : \E ps \in ParamPoints : InBset(piece.dom, ps)
    /\ \E e \in NoSolution : \E ps \in ParamPoints : InBset(e, ps)
    /\ \E ps \in ParamPoints : ~InBset(sol.dom, ps)

\* C3: disjointness.  No integer parameter point is in the domains of two
\* leaves of one solve, and the domain of a leaf has the constraint of
\* each decision that led to it: ineq >= 0 on the positive side of a
\* split, -ineq - 1 >= 0 on the negative side, eq >= 1, -eq >= 1 and
\* eq = 0 for an equality that is transferred to the context.
C3_Disjointness ==
    /\ \A i \in 1..Len(leaves) : \A j \in (i + 1)..Len(leaves) :
          \A ps \in ParamPoints :
             ~(InBset(leaves[i].dom, ps) /\ InBset(leaves[j].dom, ps))
    /\ \A leaf \in Leaves : PathInDom(leaf)

\* leaves on both sides of a split, each with a point, and the three
\* leaves of an equality that was transferred
C3_Witness ==
    /\ \E a \in Leaves, b \in Leaves :
          /\ \E k \in 1..Len(a.path) : a.path[k].side = "pos"
          /\ \E k \in 1..Len(b.path) : b.path[k].side = "neg"
          /\ \E ps \in ParamPoints : InBset(a.dom, ps)
          /\ \E ps \in ParamPoints : InBset(b.dom, ps)
    /\ \E a \in Leaves : \E k \in 1..Len(a.path) : a.path[k].side = "div"

C4_WitnessUntracked ==
    /\ ~sol.null
    /\ sol.kind = "map"
    /\ ~sol.track_empty
    /\ \E leaf \in Leaves : leaf.kind = "empty"


\* some output variable was in a column when the leaf was handed over
NonBasicLeaves == {leaf \in Leaves : leaf.nonbasic}

\* C5: a leaf with an output variable in a column.  Whenever a tableau
\* that is not empty and has an output variable in a column is handed to
\* sol_map_add or to sol_for_add, the call fails: it adds no piece and
\* does not call the visitor.
C5_NonBasicFails == \A leaf \in NonBasicLeaves : leaf.kind = "error"

\* the visitor of isl_basic_map_foreach_lexopt has returned an error
VisitorFailed ==
    /\ sol.kind = "for"
    /\ sol.fail_at > 0
    /\ sol.n_call >= sol.fail_at

\* C6: an error of the visitor.  Once the visitor of
\* isl_basic_map_foreach_lexopt has returned an error, it is not called
\* again, the solution object, freed by then, is not used through a null
\* or dangling pointer, and the call returns -1.
C6_VisitorErrorForwarded ==
    VisitorFailed =>
        /\ sol.n_call = sol.fail_at
        /\ ub = {}
        /\ phase # "crashed"
        /\ phase = "returned" => result.ret = "-1"

\* C7: the order of the leaves.  Of two leaves of one solve the one handed
\* over first is on the earlier branch where their paths part: the
\* positive side of a split (ineq >= 0) comes before its negative side
\* (-ineq - 1 >= 0), and the leaf of no_sol_in_strict comes before every
\* leaf found after it; the domain of each leaf has the constraints of its
\* path.
C7_DepthFirstOrder ==
    \A i \in 1..Len(leaves) :
        /\ PathInDom(leaves[i])
        /\ \A j \in (i + 1)..Len(leaves) :
              EarlierBranch(leaves[i], leaves[j])

\* leaves, each with a point, on the positive side of a split, then on
\* its negative side, after a leaf of no_sol_in_strict
C7_Witness ==
    \E i \in 1..Len(leaves), j \in 1..Len(leaves), k \in 1..Len(leaves) :
        /\ i < j
        /\ j < k
        /\ \E n \in 1..Len(leaves[i].path) : leaves[i].path[n].side = "strict"
        /\ \E n \in 1..Len(leaves[j].path) :
              /\ leaves[j].path[n].side = "pos"
              /\ n <= Len(leaves[k].path)
              /\ leaves[k].path[n] = Step(leaves[j].path[n].ineq, "neg")
        /\ \E ps \in ParamPoints : InBset(leaves[j].dom, ps)
        /\ \E ps \in ParamPoints : InBset(leaves[k].dom, ps)

\* find_in_pos has returned to find_solutions with the solution object
AfterFindInPos == At_pc("negative") /\ ~sol.null

\* the samples of the context that are dropped
Dropped(tab) == SubSeq(tab.samples, 1, tab.n_outside)

\* C8: find_in_pos restores the context.  When find_in_pos has returned
\* with the solution object, the rows of the context tableau, its
\* variables and constraints, its basic set and its dropped samples are
\* those of its entry, and the main tableau of the caller is as the caller
\* handed it over.
C8_ContextRestored ==
    AfterFindInPos =>
        /\ sol.context_tab.mat = Top.snap.mat
        /\ sol.context_tab.n_row = Top.snap.n_row
        /\ sol.context_tab.n_col = Top.snap.n_col
        /\ sol.context_tab.var = Top.snap.var
        /\ sol.context_tab.con = Top.snap.con
        /\ sol.context_tab.bset = Top.snap.bset
        /\ sol.context_tab.empty = Top.snap.empty
        /\ Dropped(sol.context_tab) = Dropped(Top.snap)
        /\ Top.tab = Top.caller_tab

\* find_in_pos has returned from a recursion that pivoted its duplicate,
\* handed over a leaf with a div and found a new sample
C8_Witness ==
    /\ AfterFindInPos
    /\ Top.dup_tab # Top.caller_tab
    /\ sol.context_tab.n_sample > Top.snap.n_sample
    /\ \E leaf \in Leaves : leaf.dom.n_div > Top.snap.bset.n_div

(***************************************************************************)
(* A tableau that is built and then made integral, one action for each     *)
(* step: tab_for_lexmin adds the inequalities with add_lexmin_ineq, each   *)
(* followed by restore_lexmin.  Then, for a context tableau, sol_init      *)
(* calls restore_lexmin and context_is_feasible calls                      *)
(* cut_to_integer_lexmin (stage 1); a context that is feasible goes        *)
(* through tab_detect_nonnegative_parameters, which drops the big          *)
(* parameter if it can, and gets one more inequality with add_lexmin_ineq  *)
(* and context_is_feasible, as in row_sign (stage 2).  For a main tableau  *)
(* find_solutions runs its loop.  work.last is the step taken last,        *)
(* work.prev the tableau it was given, work.row the row first_neg          *)
(* returned, work.ctx the context of a main tableau or the snapshot of     *)
(* context_is_feasible.  The rows of the main tableaux do not involve the  *)
(* parameter; where find_solutions would go on with a split of the context *)
(* or a parametric cut the run is left ("left").                           *)
(***************************************************************************)
MaxBox == 2       \* the variables of a context are between -1 and MaxBox

MaxSlope == 2     \* the largest coefficient of a variable in a context

MaxShift == 2     \* the largest constant of a constraint of a context

MaxRounds == 6    \* the cuts added to one tableau

\* a context in one variable: lo <= d x <= hi
CtxSystems1 ==
    {<<<<-lo, d>>, <<hi, -d>>>> :
        lo \in -1..MaxBox, hi \in -1..MaxBox, d \in 1..(MaxSlope + 1)}

\* a context in two variables: a box and one more constraint
CtxSystems2 ==
    {<<<<-lo, 1, 0>>, <<hi, -1, 0>>, <<-lo, 0, 1>>, <<hi, 0, -1>>,
       <<c, a, b>>>> :
        lo \in {-1, 0}, hi \in {MaxBox - 1, MaxBox},
        c \in -MaxShift..MaxShift,
        a \in -MaxSlope..MaxSlope, b \in (-MaxSlope..MaxSlope) \ {0}}

\* a main tableau over one parameter and one output x: lo <= d x <= hi
MainSystems ==
    {<<<<-lo, 0, d>>, <<hi, 0, -d>>>> :
        lo \in -1..MaxBox, hi \in -1..MaxBox, d \in 1..(MaxSlope + 1)}

\* tab_for_lexmin up to its loops over the constraints
TabStart(n_var, has_dom, dom_dim, dom_n_div, M) ==
    LET t0 == isl_tab_alloc(n_var, M)
        t1 == IF has_dom
              THEN [t0 EXCEPT !.n_param = dom_dim - dom_n_div,
                              !.n_div = dom_n_div,
                              !.has_row_sign = TRUE]
              ELSE t0
    IN  [t1 EXCEPT !.var =
            [i \in 1..Len(t1.var) |->
               IF i - 1 >= t1.n_param /\ i - 1 < t1.n_var - t1.n_div
               THEN [t1.var[i] EXCEPT !.is_nonneg = TRUE, !.frozen = TRUE]
               ELSE t1.var[i]]]

\* the inequality a context in n variables gets in stage 2
Extras(n) ==
    IF n = 1 THEN {<<-1, 1>>, <<-1, 2>>, <<1, -2>>}
    ELSE {<<-1, 1, 1>>, <<-1, 2, 2>>, <<1, -2, 0>>}

WorkContext(sys, extra) ==
    [NoWork EXCEPT !.pc = "add", !.kind = "context", !.stage = 1,
                   !.tab = TabStart(Len(sys[1]) - 1, FALSE, 0, 0, 1),
                   !.dom = [NoBset EXCEPT !.ineq = sys],
                   !.todo = sys, !.extra = extra]

\* the context of a main tableau: the universe, as sol_init leaves it
WorkMain(sys) ==
    [NoWork EXCEPT !.pc = "add", !.kind = "main",
                   !.tab = TabStart(2, TRUE, 1, 0, 1),
                   !.ctx = sol_init("map", isl_basic_set_universe, 1, FALSE,
                                    FALSE, 0).context_tab,
                   !.todo = sys]

InitTab ==
    /\ PipQuiet
    /\ ValOff
    /\ work \in UNION {{WorkContext(sys, e) : e \in Extras(Len(sys[1]) - 1)} :
                         sys \in CtxSystems1 \cup CtxSystems2}
                \cup {WorkMain(sys) : sys \in MainSystems}

TabStep(w) ==
    /\ work' = w
    /\ tick' = 1 - tick
    /\ UNCHANGED <<bmap, phase, sol, stack, leaves, result, ub, valVars>>

\* the call of restore_lexmin on tableau t, to return to position ret
CallRestore(w, t, ret) ==
    [w EXCEPT !.tab = t, !.pc = "first_neg", !.ret = ret, !.pivots = 0]

\* add_lexmin_ineq on the next inequality, up to its call of restore_lexmin
tab_add_ineq ==
    /\ work.pc = "add"
    /\ work.todo # <<>> /\ ~work.tab.null /\ ~work.tab.empty
    /\ \E t0 \in {isl_tab_add_row(BsetAddIneq(work.tab, Head(work.todo)),
                                  Head(work.todo))} :
       \E t1 \in {SetConNonneg(t0, t0.n_con - 1)} :
       \E row \in {At(t1.con, t1.n_con - 1).index} :
           IF isl_tab_row_is_redundant(t1, row)
           THEN TabStep([work EXCEPT !.tab = isl_tab_mark_redundant(t1, row),
                                     !.todo = Tail(@), !.last = "add"])
           ELSE TabStep([CallRestore(work, t1, "add") EXCEPT !.last = "add"])

\* tab_for_lexmin returns.  The context tableau gets its basic set and
\* sol_init calls restore_lexmin on it; the main tableau goes through
\* tab_detect_nonnegative_parameters to find_solutions
tab_built ==
    /\ work.pc = "add"
    /\ work.todo = <<>> \/ work.tab.null \/ work.tab.empty
    /\ IF work.tab.null
       THEN TabStep([work EXCEPT !.pc = "done", !.last = "built"])
       ELSE IF work.kind = "context" /\ work.stage = 2
       THEN \E t \in {isl_tab_snap(work.tab)} :
               TabStep([work EXCEPT !.tab = t, !.ctx = t, !.pc = "cut",
                                    !.last = "built"])
       ELSE IF work.kind = "context"
       THEN \E t \in {[work.tab EXCEPT !.has_bset = TRUE,
                                       !.bset = work.dom,
                                       !.samples = <<>>, !.n_sample = 0,
                                       !.n_outside = 0]} :
               IF t.empty
               THEN TabStep([work EXCEPT !.tab = isl_tab_snap(t),
                                         !.ctx = isl_tab_snap(t),
                                         !.pc = "cut", !.last = "built"])
               ELSE TabStep([CallRestore(work, t, "restore")
                               EXCEPT !.last = "built"])
       ELSE \E t \in {tab_detect_nonnegative_parameters(work.tab,
                                                        work.ctx)} :
            \E c \in {detect_nonnegative_context(work.ctx)} :
               TabStep([work EXCEPT !.tab = t, !.ctx = c, !.last = "built",
                                    !.pc = IF t.empty \/ c.empty
                                           THEN "done" ELSE "signs"])

\* restore_lexmin: the call of first_neg at the top of its loop
restore_first_neg ==
    /\ work.pc = "first_neg"
    /\ \E row \in {first_neg(work.tab)} :
           TabStep([work EXCEPT !.prev = work.tab,
                                !.tab = first_neg_tab(work.tab),
                                !.row = row, !.last = "first_neg",
                                !.pc = IF row = -1 THEN "return"
                                       ELSE "pivot"])

\* restore_lexmin: the body of its loop
restore_pivot ==
    /\ work.pc = "pivot"
    /\ \E col \in {lexmin_pivot_col(work.tab, work.row)} :
           IF col >= work.tab.n_col
           THEN TabStep([work EXCEPT !.prev = work.tab,
                                     !.tab = isl_tab_mark_empty(work.tab),
                                     !.last = "pivot", !.pc = "return"])
           ELSE IF col < 0
           THEN TabStep([work EXCEPT !.prev = work.tab, !.tab = NullTab,
                                     !.last = "pivot", !.pc = "return"])
           ELSE TabStep([work EXCEPT
                           !.prev = work.tab,
                           !.tab = isl_tab_pivot(work.tab, work.row, col),
                           !.pivots = @ + 1,
                           !.last = "pivot", !.pc = "first_neg"])

\* restore_lexmin has returned work.tab to add_lexmin_ineq, sol_init,
\* cut_to_integer_lexmin or find_solutions
restore_return ==
    /\ work.pc = "return"
    /\ \E t \in {work.tab} :
       \E r \in {t.n_con - 1} :
           IF work.ret = "add"
           THEN TabStep([work EXCEPT
                   !.tab = IF /\ ~t.null
                              /\ ~t.empty
                              /\ At(t.con, r).is_row
                              /\ isl_tab_row_is_redundant(
                                     t, At(t.con, r).index)
                           THEN isl_tab_mark_redundant(t, At(t.con, r).index)
                           ELSE t,
                   !.todo = Tail(@), !.last = "return", !.pc = "add"])
           ELSE IF work.ret = "restore"
           THEN TabStep([work EXCEPT
                   !.tab = IF t.null THEN t ELSE isl_tab_snap(t),
                   !.ctx = IF t.null THEN t ELSE isl_tab_snap(t),
                   !.last = "return", !.pc = "cut"])
           ELSE IF work.ret = "cut"
           THEN TabStep([work EXCEPT
                   !.last = "return",
                   !.pc = IF t.null \/ t.empty THEN "done" ELSE "cut"])
           ELSE TabStep([work EXCEPT !.last = "return", !.pc = LoopPc(t)])

\* cut_to_integer_lexmin: the tests before its loop and the top of the loop
cut_to_integer_lexmin_step ==
    /\ work.pc = "cut"
    /\ \E t \in {work.tab} :
       \E row \in {IF t.null \/ t.empty THEN -1 ELSE first_non_integer(t)} :
           IF t.null \/ t.empty \/ row = -1
           THEN TabStep([work EXCEPT !.last = "cut", !.pc = "done"])
           ELSE IF I_VAR(t, row)
           THEN TabStep([work EXCEPT !.tab = isl_tab_mark_empty(t),
                                     !.last = "cut", !.pc = "done"])
           ELSE /\ work.rounds < MaxRounds
                /\ TabStep([CallRestore(work, add_cut(t, row), "cut")
                              EXCEPT !.rounds = @ + 1, !.last = "cut"])

\* context_is_feasible after its call of cut_to_integer_lexmin, in stage
\* 1: the sample is kept and the tableau rolled back; the context that is
\* feasible goes on to stage 2
context_is_feasible_return ==
    /\ work.pc = "done"
    /\ work.kind = "context" /\ work.stage = 1
    /\ ~work.tab.null
    /\ \E t \in {work.tab} :
       \E t1 \in {IF ~t.empty /\ sample_is_finite(t)
                  THEN [t EXCEPT !.samples =
                                    Append(t.samples,
                                           isl_tab_get_sample_value(t)),
                                 !.n_sample = t.n_sample + 1]
                  ELSE t} :
       \E c \in {isl_tab_rollback(t1, work.ctx)} :
           IF t.empty
           THEN TabStep([work EXCEPT !.tab = c, !.last = "feasible",
                                     !.pc = "end"])
           ELSE TabStep([work EXCEPT
                           !.tab = detect_nonnegative_context(c),
                           !.todo = <<work.extra>>, !.stage = 2,
                           !.rounds = 0,
                           !.last = "feasible", !.pc = "add"])

\* find_solutions: the loop over the rows that computes their signs
work_signs ==
    /\ work.pc = "signs"
    /\ \E sp \in {SignPass(work.tab, work.ctx, work.tab.n_redundant,
                           -1, 0)} :
           IF ~sp.ok
           THEN TabStep([work EXCEPT !.tab = NullTab, !.ctx = sp.ctx,
                                     !.last = "signs", !.pc = "done"])
           ELSE IF sp.neg
           THEN TabStep([CallRestore(work, sp.tab, "signs")
                           EXCEPT !.ctx = sp.ctx, !.last = "signs"])
           ELSE TabStep([work EXCEPT !.tab = sp.tab, !.ctx = sp.ctx,
                                     !.last = "signs",
                                     !.pc = IF sp.split # -1 THEN "left"
                                            ELSE "integer"])

\* find_solutions: the sample is integral, or a cut is added
work_integer ==
    /\ work.pc = "integer"
    /\ \E t \in {work.tab} :
       \E row \in {first_non_integer(t)} :
           IF t.rational \/ row < 0
           THEN TabStep([work EXCEPT !.last = "integer", !.pc = "done"])
           ELSE IF ~I_PAR(t, row)
           THEN TabStep([work EXCEPT !.last = "integer", !.pc = "left"])
           ELSE IF I_VAR(t, row)
           THEN TabStep([work EXCEPT !.tab = isl_tab_mark_empty(t),
                                     !.last = "integer", !.pc = "done"])
           ELSE /\ work.rounds < MaxRounds
                /\ TabStep([CallRestore(work, add_cut(t, row), "signs")
                              EXCEPT !.rounds = @ + 1, !.last = "integer"])

NextTab ==
    \/ tab_add_ineq \/ tab_built
    \/ restore_first_neg \/ restore_pivot \/ restore_return
    \/ cut_to_integer_lexmin_step \/ context_is_feasible_return
    \/ work_signs \/ work_integer

SpecTab == InitTab /\ [][NextTab]_vars

\* cut_to_integer_lexmin leaves its loop at tableau t without adding a cut
CutLoopEnds(t) ==
    \/ t.null \/ t.empty
    \/ first_non_integer(t) = -1
    \/ I_VAR(t, first_non_integer(t))

\* find_solutions takes the step after its loop over the rows without
\* adding a cut
IntegerStepEnds(t) ==
    \/ t.rational
    \/ first_non_integer(t) < 0
    \/ ~I_PAR(t, first_non_integer(t))
    \/ I_VAR(t, first_non_integer(t))

\* the guards of the steps: NextTab can take a step
TabRunning ==
    \/ work.pc \in {"add", "first_neg", "pivot", "return", "signs"}
    \/ /\ work.pc = "cut"
       /\ work.rounds < MaxRounds \/ CutLoopEnds(work.tab)
    \/ /\ work.pc = "integer"
       /\ work.rounds < MaxRounds \/ IntegerStepEnds(work.tab)
    \/ /\ work.pc = "done" /\ work.kind = "context" /\ work.stage = 1
       /\ ~work.tab.null

\* a step of NextTab, seen through tick: every step changes tick and
\* nothing else does
TabTick == TabRunning /\ tick' = 1 - tick

\* the steps are those of one sequential call: each one is taken
SpecTabLive == SpecTab /\ WF_tick(TabTick)

\* the rows first_neg is asked about: those of a variable or constraint
\* that has to be non-negative
IsNonnegRow(t, row) ==
    /\ row >= t.n_redundant /\ row < t.n_row
    /\ isl_tab_var_from_row(t, row).is_nonneg

\* the coefficient of the big parameter in the row is negative
NegativeM(t, row) == t.M = 1 /\ At(t.mat, row).m < 0

\* the row is marked negative, or it is obviously negative and its sign
\* is not known
KnownNegative(t, row) ==
    IF t.has_row_sign
    THEN \/ At(t.row_sign, row) = isl_tab_row_neg
         \/ /\ At(t.row_sign, row) = isl_tab_row_unknown
            /\ is_obviously_neg(t, row)
    ELSE is_obviously_neg(t, row)

\* the row has a positive entry in a column that is not one of a parameter
HasPivotColumn(t, row) ==
    \E j \in t.n_dead..(t.n_col - 1) :
        ~IsParamCol(t, j) /\ At(At(t.mat, row).a, j) > 0

\* C18: the postcondition of restore_lexmin.  A tableau it returns that is
\* not marked empty has no violated row: no row that has to be non-negative
\* has a negative coefficient of the big parameter, is obviously negative
\* with an unknown sign, or is marked negative.  It marks the tableau empty
\* exactly when the violated row it picked has no eligible column with a
\* positive entry.
C18_RestoreLexmin ==
    /\ (work.pc = "return" /\ ~work.tab.null /\ ~work.tab.empty)
          => \A row \in 0..(work.tab.n_row - 1) :
                IsNonnegRow(work.tab, row)
                   => /\ ~NegativeM(work.tab, row)
                      /\ ~KnownNegative(work.tab, row)
    /\ work.last = "pivot"
          => /\ IsNonnegRow(work.prev, work.row)
             /\ NegativeM(work.prev, work.row)
                   \/ KnownNegative(work.prev, work.row)
             /\ (~work.tab.null /\ work.tab.empty)
                   <=> ~HasPivotColumn(work.prev, work.row)
    /\ (work.pc = "return" /\ ~work.tab.null /\ work.tab.empty)
          => work.last = "pivot"

\* restore_lexmin returns a tableau that it has pivoted and not emptied
C18_Witness ==
    /\ work.pc = "return"
    /\ ~work.tab.null /\ ~work.tab.empty
    /\ work.pivots >= 2

\* restore_lexmin returns a tableau it has marked empty
C18_WitnessEmpty ==
    /\ work.pc = "return"
    /\ ~work.tab.null /\ work.tab.empty
    /\ work.last = "pivot"
    /\ work.pivots >= 1

\* row is the first row of the tableau that has to be non-negative and
\* satisfies P
FirstRowWith(t, row, P(_, _)) ==
    /\ IsNonnegRow(t, row)
    /\ P(t, row)
    /\ \A r \in 0..(row - 1) : ~(IsNonnegRow(t, r) /\ P(t, r))

\* no row of the tableau that has to be non-negative satisfies P
NoRowWith(t, P(_, _)) ==
    \A r \in 0..(t.n_row - 1) : ~(IsNonnegRow(t, r) /\ P(t, r))

\* C20 as the spec's two cases: with the big parameter first_neg returns
\* a row that has to be non-negative and has a negative coefficient of it
\* if there is one, and otherwise -1; only without the big parameter does
\* it return the first such row that is obviously negative or marked
\* negative.
C20_FirstNegTwoCases ==
    work.last = "first_neg"
       => IF work.prev.M = 1
          THEN IF NoRowWith(work.prev, NegativeM) THEN work.row = -1
               ELSE FirstRowWith(work.prev, work.row, NegativeM)
          ELSE IF NoRowWith(work.prev, KnownNegative) THEN work.row = -1
               ELSE FirstRowWith(work.prev, work.row, KnownNegative)

\* C20: first_neg returns the first row that has to be non-negative and
\* has a negative coefficient of the big parameter, if the tableau has a
\* big parameter and such a row; otherwise, with or without the big
\* parameter, the first such row that is marked negative or is obviously
\* negative with a sign that is not known, which it marks negative; and
\* -1 only if there is neither.
C20_FirstNeg ==
    work.last = "first_neg"
       => IF ~NoRowWith(work.prev, NegativeM)
          THEN /\ FirstRowWith(work.prev, work.row, NegativeM)
               /\ work.tab = work.prev
          ELSE IF ~NoRowWith(work.prev, KnownNegative)
          THEN /\ FirstRowWith(work.prev, work.row, KnownNegative)
               /\ work.prev.has_row_sign
                     => work.tab =
                          [work.prev EXCEPT !.row_sign =
                              Upd(work.prev.row_sign, work.row,
                                  isl_tab_row_neg)]
               /\ ~work.prev.has_row_sign => work.tab = work.prev
          ELSE work.row = -1 /\ work.tab = work.prev

\* a tableau with the big parameter in which no row has a negative
\* coefficient of it: first_neg returns a row it finds obviously negative
\* and marks it
C20_Witness ==
    /\ work.last = "first_neg"
    /\ work.prev.M = 1
    /\ NoRowWith(work.prev, NegativeM)
    /\ work.row >= 0
    /\ work.prev.has_row_sign
    /\ At(work.prev.row_sign, work.row) = isl_tab_row_unknown
    /\ At(work.tab.row_sign, work.row) = isl_tab_row_neg

\* first_neg returns a row with a negative coefficient of the big parameter
C20_WitnessM ==
    /\ work.last = "first_neg"
    /\ work.row >= 0
    /\ NegativeM(work.prev, work.row)

\* first_neg returns a row that was marked negative before: a cut
C20_WitnessMarked ==
    /\ work.last = "first_neg"
    /\ work.row >= 0
    /\ work.prev.has_row_sign
    /\ At(work.prev.row_sign, work.row) = isl_tab_row_neg

\* the sample of the tableau is integral in every variable: a variable in
\* a column is 0 and the constant and the coefficient of the big parameter
\* of the row of any other variable are multiples of the row's denominator
IntegralSample(t) ==
    \A i \in 0..(t.n_var - 1) :
        At(t.var, i).is_row
           => /\ isl_int_is_divisible_by(At(t.mat, At(t.var, i).index).c,
                                         At(t.mat, At(t.var, i).index).d)
              /\ t.M = 1
                    => isl_int_is_divisible_by(
                           At(t.mat, At(t.var, i).index).m,
                           At(t.mat, At(t.var, i).index).d)

\* cut_to_integer_lexmin has returned a tableau that is marked empty or
\* has an integral sample
CutReturned ==
    /\ work.pc = "done"
    /\ ~work.tab.null
    /\ work.tab.empty \/ IntegralSample(work.tab)

\* C19: cut_to_integer_lexmin terminates on every bounded context tableau.
\* A call of it is followed, after finitely many rounds of add_cut and
\* restore_lexmin, by its return of a tableau whose sample is integral in
\* every variable or of a tableau marked empty.
C19_CutTerminates ==
    (work.kind = "context" /\ work.pc = "cut") ~> CutReturned

\* cut_to_integer_lexmin returns a tableau with an integral sample after
\* two rounds of cuts
C19_Witness ==
    /\ work.kind = "context"
    /\ CutReturned
    /\ ~work.tab.empty
    /\ work.rounds >= 2
    /\ work.last = "cut"

\* cut_to_integer_lexmin returns a tableau that a cut has emptied
C19_WitnessEmpty ==
    /\ work.kind = "context"
    /\ CutReturned
    /\ work.tab.empty
    /\ work.rounds >= 1
    /\ work.last = "return"

\* first_neg returns a row of a tableau without the big parameter
C20_WitnessNoM ==
    /\ work.last = "first_neg"
    /\ work.prev.M = 0
    /\ work.row >= 0


(***************************************************************************)
(* The pivot column of restore_lexmin.                                     *)
(***************************************************************************)
\* the columns lexmin_pivot_col chooses from: live, not of a parameter or
\* a div, with a positive entry in the row
EligibleCols(t, row) ==
    {j \in t.n_dead..(t.n_col - 1) :
        ~IsParamCol(t, j) /\ At(At(t.mat, row).a, j) > 0}

\* a_{v,c}: 1 or 0 for a variable in a column, the entry of its row otherwise
PivotEntry(t, v, c) ==
    IF ~At(t.var, v).is_row
    THEN IF At(t.var, v).index = c THEN 1 ELSE 0
    ELSE At(At(t.mat, At(t.var, v).index).a, c)

\* a_{v,c1} / a_{row,c1} compared with a_{v,c2} / a_{row,c2}, the entries
\* of the row in both columns being positive
RatioLess(t, row, v, c1, c2) ==
    PivotEntry(t, v, c1) * At(At(t.mat, row).a, c2)
        < PivotEntry(t, v, c2) * At(At(t.mat, row).a, c1)

RatioEqual(t, row, v, c1, c2) ==
    PivotEntry(t, v, c1) * At(At(t.mat, row).a, c2)
        = PivotEntry(t, v, c2) * At(At(t.mat, row).a, c1)

\* the vector of column c1 over the variables that are not parameters, in
\* the order of their index, comes before that of column c2
LexVecLess(t, row, c1, c2) ==
    \E v \in t.n_param..(t.n_var - t.n_div - 1) :
        /\ RatioLess(t, row, v, c1, c2)
        /\ \A u \in t.n_param..(v - 1) : RatioEqual(t, row, u, c1, c2)

\* C21: lexmin_pivot_col returns, among the live columns that hold no
\* parameter and no div and have a positive entry in the row, the column
\* whose vector of ratios a_{v,c} / a_{row,c} over the variables that are
\* not parameters is lexicographically smallest, and n_col when there is
\* no such column.
C21_LexminPivotCol ==
    work.pc = "pivot" /\ ~work.tab.null =>
        IF EligibleCols(work.tab, work.row) = {}
        THEN lexmin_pivot_col(work.tab, work.row) = work.tab.n_col
        ELSE /\ lexmin_pivot_col(work.tab, work.row)
                    \in EligibleCols(work.tab, work.row)
             /\ \A c \in EligibleCols(work.tab, work.row)
                         \ {lexmin_pivot_col(work.tab, work.row)} :
                    LexVecLess(work.tab, work.row,
                               lexmin_pivot_col(work.tab, work.row), c)

\* two columns are eligible, they agree on the variables in columns and the
\* row of a basic variable tells them apart; the later one is returned
C21_Witness ==
    /\ work.pc = "pivot" /\ ~work.tab.null
    /\ \E c1, c2 \in EligibleCols(work.tab, work.row) :
          /\ c1 < c2
          /\ lexmin_pivot_col(work.tab, work.row) = c2
          /\ \A v \in work.tab.n_param..
                      (work.tab.n_var - work.tab.n_div - 1) :
                 ~At(work.tab.var, v).is_row
                     => At(work.tab.var, v).index \notin {c1, c2}

\* no column is eligible: n_col is returned
C21_WitnessNone ==
    /\ work.pc = "pivot" /\ ~work.tab.null
    /\ EligibleCols(work.tab, work.row) = {}
    /\ lexmin_pivot_col(work.tab, work.row) = work.tab.n_col


(***************************************************************************)
(* The equalities of tab_for_lexmin: one call of add_lexmin_valid_eq for   *)
(* each.  work.prev is the tableau the call was given, work.extra the      *)
(* equality and work.col what last_var_col_or_int_par_col returned for     *)
(* the row of the equality.                                                *)
(***************************************************************************)
MaxEqCst == 1     \* the largest constant of an equality

MaxEqCoef == 2    \* the largest coefficient of an equality

MaxEqVar == 3     \* the variables of a tableau that gets equalities

\* the equalities over n variables
Equalities(n) ==
    {<<c>> \o a : c \in 0..MaxEqCst,
                  a \in [1..n -> -MaxEqCoef..MaxEqCoef]}

\* a main tableau of n_var variables, the first n_param of them the
\* parameters of the domain, and the equalities of its basic map
WorkEqs(n_var, n_param, eqs) ==
    [NoWork EXCEPT !.pc = "eq", !.kind = "eqs",
                   !.tab = TabStart(n_var, TRUE, n_param, 0, 1),
                   !.todo = eqs]

InitEq ==
    /\ PipQuiet
    /\ ValOff
    /\ \E n \in 2..MaxEqVar, p \in 0..1 :
       \E e1 \in Equalities(n), e2 \in Equalities(n) :
           work = WorkEqs(n, p, <<e1, e2>>)

\* tab_for_lexmin: one round of its loop over the equalities
tab_add_valid_eq ==
    /\ work.pc = "eq"
    /\ work.todo # <<>> /\ ~work.tab.null /\ ~work.tab.empty
    /\ \E t1 \in {isl_tab_add_row(work.tab, Head(work.todo))} :
       \E i \in {last_var_col_or_int_par_col(
                     t1, At(t1.con, t1.n_con - 1).index)} :
           TabStep([work EXCEPT
                      !.prev = work.tab,
                      !.extra = Head(work.todo),
                      !.col = i,
                      !.tab = add_lexmin_valid_eq(work.tab, Head(work.todo)),
                      !.todo = Tail(@),
                      !.last = "eq"])

NextEq == tab_add_valid_eq

SpecEq == InitEq /\ [][NextEq]_vars


\* the tableau of the call with the row of the equality added
EqTab == isl_tab_add_row(work.prev, work.extra)

\* the row of the equality in EqTab
EqRow == At(EqTab.con, EqTab.n_con - 1).index

\* the variables that are in a column, are no parameters and have a
\* non-zero coefficient in the row of the equality
EqVars ==
    {i \in EqTab.n_param..(EqTab.n_var - EqTab.n_div - 1) :
        /\ ~At(EqTab.var, i).is_row
        /\ At(At(EqTab.mat, EqRow).a, At(EqTab.var, i).index) # 0}

\* the live columns of a parameter with coefficient 1 or -1 in that row
EqUnitParamCols ==
    {j \in EqTab.n_dead..(EqTab.n_col - 1) :
        /\ IsParamCol(EqTab, j)
        /\ At(At(EqTab.mat, EqRow).a, j) \in {1, -1}}

\* the column of the last variable of EqVars
LastEqVarCol ==
    At(EqTab.var, CHOOSE i \in EqVars : \A j \in EqVars : j <= i).index

\* the call pivoted the equality into a column and killed the column
EqEliminated ==
    /\ work.tab.n_con = work.prev.n_con + 1
    /\ work.tab.n_eq = work.prev.n_eq + 1
    /\ work.tab.n_col - work.tab.n_dead
           = work.prev.n_col - work.prev.n_dead - 1
    /\ At(work.tab.con, work.tab.n_con - 1).is_zero

\* the call added the equality as two inequalities
EqAsTwoIneqs ==
    /\ work.tab.n_con = work.prev.n_con + 2
    /\ work.tab.n_eq = work.prev.n_eq
    /\ work.tab.n_col - work.tab.n_dead = work.prev.n_col - work.prev.n_dead
    /\ At(work.tab.con, work.tab.n_con - 1).is_nonneg
    /\ At(work.tab.con, work.tab.n_con - 2).is_nonneg

\* C22: add_lexmin_valid_eq pivots and kills the column of the last
\* variable that is in a column, is no parameter and has a non-zero
\* coefficient in the new row, if there is one; otherwise a column of a
\* parameter with coefficient 1 or -1; and it adds the equality as two
\* inequalities only when there is neither.
C22_EliminationColumn ==
    work.last = "eq" /\ ~work.tab.null =>
        IF EqVars # {}
        THEN work.col = LastEqVarCol /\ EqEliminated
        ELSE IF EqUnitParamCols # {}
        THEN work.col \in EqUnitParamCols /\ EqEliminated
        ELSE work.col = -1 /\ EqAsTwoIneqs

\* what the code does: the variable in column n_dead is left out of the
\* first search, and the second search is over all live columns
C22_AsCoded ==
    work.last = "eq" /\ ~work.tab.null =>
        LET V == {i \in EqVars : At(EqTab.var, i).index > EqTab.n_dead}
            U == {j \in EqTab.n_dead..(EqTab.n_col - 1) :
                     At(At(EqTab.mat, EqRow).a, j) \in {1, -1}}
        IN  IF V # {}
            THEN /\ work.col = At(EqTab.var,
                                  CHOOSE i \in V : \A j \in V : j <= i).index
                 /\ EqEliminated
            ELSE IF U # {}
            THEN work.col = Least(U) /\ EqEliminated
            ELSE work.col = -1 /\ EqAsTwoIneqs

\* the last variable with a non-zero coefficient is in column n_dead and
\* the column of an earlier variable is pivoted
C22_SkippedLastVar ==
    /\ work.last = "eq" /\ ~work.tab.null
    /\ EqVars # {}
    /\ LastEqVarCol = EqTab.n_dead
    /\ work.col >= 0 /\ work.col # LastEqVarCol
    /\ ~IsParamCol(EqTab, work.col)

\* a variable has a non-zero coefficient and the equality is added as two
\* inequalities
C22_VarAsTwoIneqs ==
    /\ work.last = "eq" /\ ~work.tab.null
    /\ EqVars # {}
    /\ work.col = -1 /\ EqAsTwoIneqs


(***************************************************************************)
(* The decision of find_solutions at a sample that is not integral.        *)
(***************************************************************************)
\* find_solutions has a row whose sample is not integral
AtNonIntegerRow == At_pc("integer") /\ ~Top.tab.rational /\ CutRow >= 0

\* the context, the solution and the leaves are left alone
ContextKept == sol' = sol /\ leaves' = leaves

\* div number d of the basic set is the given div: its denominator and its
\* numerator over the dimensions and divs that were there when it was added
IsDiv(bset, d, div) == SubSeq(At(bset.div, d), 1, Len(div)) = div

HasDiv(bset, div) == \E d \in 0..(bset.n_div - 1) : IsDiv(bset, d, div)

\* the main tableau is marked empty and nothing else changes
DeclaredEmpty ==
    /\ Top'.tab = [Top.tab EXCEPT !.empty = TRUE]
    /\ ContextKept

\* a cut is added to the main tableau that has no parameter and no div in
\* it
PlainCutAdded ==
    /\ ContextKept
    /\ Top'.tab.n_con = Top.tab.n_con + 1
    /\ Top'.tab.n_var = Top.tab.n_var
    /\ At(Top'.tab.con, Top.tab.n_con).is_nonneg
    /\ \A j \in 0..(Top.tab.n_col - 1) :
          IsParamCol(Top.tab, j) =>
              At(At(add_cut(Top.tab, CutRow).mat, Top.tab.n_row).a, j) = 0

\* a cut is added to the main tableau that has the div of the parametric
\* constant of the row in it; the div is in the context and in the main
\* tableau
ParametricCutAdded ==
    /\ leaves' = leaves
    /\ ~sol'.null
    /\ Top'.tab.n_con = Top.tab.n_con + 1
    /\ At(Top'.tab.con, Top.tab.n_con).is_nonneg
    /\ sol'.context_tab.bset.n_div >= 1
    /\ sol'.context_tab.bset.n_div - sol.context_tab.bset.n_div \in {0, 1}
    /\ Top'.tab.n_div = sol'.context_tab.bset.n_div
    /\ HasDiv(sol'.context_tab.bset, get_row_parameter_div(Top.tab, CutRow))

\* the div q of the parametric constant is in the context, the part of the
\* context where m q is less than the constant is handed over as a leaf
\* without solution, the context is cut down to m q = constant, and no cut
\* is added to the main tableau
ContextSplitOnDiv ==
    /\ ~sol'.null
    /\ Len(leaves') = Len(leaves) + 1
    /\ leaves'[Len(leaves')].kind = "empty"
    /\ Top'.tab.n_con = Top.tab.n_con
    /\ Top'.tab.n_div = sol'.context_tab.bset.n_div
    /\ HasDiv(sol'.context_tab.bset, get_row_split_div(Top.tab, CutRow))
    /\ \E d \in 0..(sol'.context_tab.bset.n_div - 1) :
          /\ IsDiv(sol'.context_tab.bset, d,
                   get_row_split_div(Top.tab, CutRow))
          /\ \E ineq \in {ineq_for_div(sol'.context_tab.bset,
                                       sol'.context_tab.n_var, d)} :
                /\ leaves'[Len(leaves')].dom.ineq
                       = Append(SubSeq(sol'.context_tab.bset.ineq, 1,
                                       Len(sol'.context_tab.bset.ineq) - 1),
                                SubOne(ineq))
                /\ \A i \in 1..Len(sol.context_tab.bset.ineq) :
                       SubSeq(sol'.context_tab.bset.ineq[i], 1,
                              Len(sol.context_tab.bset.ineq[i]))
                           = sol.context_tab.bset.ineq[i]
                /\ sol'.context_tab.bset.ineq[
                       Len(sol'.context_tab.bset.ineq)] = isl_seq_neg(ineq)

\* the call of find_solutions gives up with an error
GaveUp == sol'.null \/ phase' = "crashed"

\* C23: at a sample that is not integral find_solutions acts on the first
\* row that is not integral by its flags (constant, parameters, variables
\* integral): (F, T, T) marks the main tableau empty, (F, T, F) adds a cut
\* without parameters, (*, F, F) adds a parametric cut with a div, (*, F, T)
\* adds the div to the context, records no solution where m q differs from
\* the parametric constant and requires equality in the context; a row
\* with (T, T, *) is never selected.
C23_DecisionTable ==
    [][AtNonIntegerRow =>
          /\ ~(I_CST(Top.tab, CutRow) /\ I_PAR(Top.tab, CutRow))
          /\ I_PAR(Top.tab, CutRow) /\ I_VAR(Top.tab, CutRow)
                 => DeclaredEmpty
          /\ I_PAR(Top.tab, CutRow) /\ ~I_VAR(Top.tab, CutRow)
                 => PlainCutAdded
          /\ ~I_PAR(Top.tab, CutRow) /\ ~I_VAR(Top.tab, CutRow)
                 => ParametricCutAdded \/ GaveUp
          /\ ~I_PAR(Top.tab, CutRow) /\ I_VAR(Top.tab, CutRow)
                 => ContextSplitOnDiv \/ GaveUp]_vars


\* the row had a parametric constant that is not integral and variables
\* with integral coefficients: the context has the div, the leaf without
\* solution is there and the call goes on where m q equals the constant
C23_Witness ==
    /\ phase = "run" /\ ~sol.null
    /\ Top.pc = "signs"
    /\ Top.path # <<>>
    /\ Top.path[Len(Top.path)].side = "div"
    /\ leaves # <<>>
    /\ leaves[Len(leaves)].kind = "empty"
    /\ leaves[Len(leaves)].path # <<>>
    /\ leaves[Len(leaves)].path[Len(leaves[Len(leaves)].path)]
           = Step(Top.path[Len(Top.path)].ineq, "strict")
    /\ sol.context_tab.bset.n_div >= 1

\* the main tableau was marked empty at a row with integral coefficients
\* and a constant that is not integral
C23_WitnessEmpty ==
    /\ At_pc("done") /\ Top.tab.empty
    /\ CutRow >= 0
    /\ ~I_CST(Top.tab, CutRow)
    /\ I_PAR(Top.tab, CutRow) /\ I_VAR(Top.tab, CutRow)

\* a parametric cut brought a div into the context and the main tableau:
\* no step of the path and no leaf did
C23_WitnessParametric ==
    /\ phase = "run" /\ ~sol.null
    /\ Top.pc = "signs"
    /\ Top.tab.n_div >= 1
    /\ sol.context_tab.bset.n_div = Top.tab.n_div
    /\ leaves = <<>>
    /\ \A k \in 1..Len(Top.path) : Top.path[k].side # "div"


(***************************************************************************)
(* The row that add_cut appends.                                           *)
(***************************************************************************)
MaxCutY == 3

\* the values of the column variables: non-negative integers
CutPoints(n) == [1..n -> 0..MaxCutY]

\* the step adds a cut for the first row of the tableau that is not
\* integral
CutStep ==
    /\ work.pc \in {"cut", "integer"}
    /\ work'.pc = "first_neg"

\* m times the value of a row without its big parameter at point y
RowAt(r, y) == r.c + isl_seq_inner_product(r.a, y, Len(r.a))

\* t2 is tableau t with the cut for its row appended
IsCutOf(t, row, t2) ==
    \E src \in {At(t.mat, row)} :
    \E cut \in {At(t2.mat, t.n_row)} :
        /\ t2.n_row = t.n_row + 1
        /\ t2.n_con = t.n_con + 1
        /\ At(t2.con, t.n_con).is_row
        /\ At(t2.con, t.n_con).index = t.n_row
        /\ cut.d = src.d
        /\ cut.c = -((-src.c) % src.d)
        /\ cut.m = 0
        /\ Len(cut.a) = t.n_col
        /\ \A j \in 1..t.n_col : cut.a[j] = src.a[j] % src.d
        /\ -src.d < cut.c /\ cut.c <= 0
        /\ \A j \in 1..t.n_col : 0 <= cut.a[j] /\ cut.a[j] < src.d
        /\ At(t2.con, t.n_con).is_nonneg
        /\ t.has_row_sign => At(t2.row_sign, t.n_row) = isl_tab_row_neg
        /\ \A y \in CutPoints(t.n_col) :
              RowAt(src, y) % src.d = 0 => RowAt(cut, y) >= 0
        /\ src.c % src.d # 0 => RowAt(cut, [j \in 1..t.n_col |-> 0]) < 0

\* C24: for a row m r = f + sum a_j y_j the row that add_cut appends has
\* denominator m, constant -((-f) mod m), coefficient 0 of the big
\* parameter and coefficients a_j mod m, so its constant lies in (-m, 0]
\* and its coefficients in [0, m); its constraint is marked is_nonneg and
\* its row_sign, where the tableau keeps the signs, is neg; it is satisfied
\* at every point where r and all y_j are non-negative integers, and it is
\* violated at the sample where f is not divisible by m
C24_AddCutRow ==
    [][CutStep => IsCutOf(work.tab, first_non_integer(work.tab),
                          work'.tab)]_vars

\* a cut was added for a row with a constant that is not divisible by the
\* denominator: the cut has a coefficient that is not zero, a point with
\* integer values satisfies the row and a point with integer values that
\* is not the sample makes the cut zero
C24_Witness ==
    /\ work.pc = "first_neg" /\ work.pivots = 0
    /\ work.last \in {"cut", "integer"}
    /\ \E cut \in {At(work.tab.mat, work.tab.n_row - 1)} :
          /\ cut.d >= 2
          /\ cut.c < 0
          /\ \E j \in 1..work.tab.n_col : cut.a[j] > 0
          /\ \E y \in CutPoints(work.tab.n_col) : RowAt(cut, y) = 0

\* the same in a main tableau, which keeps the signs of its rows
C24_WitnessSign ==
    /\ work.pc = "first_neg" /\ work.pivots = 0
    /\ work.last = "integer"
    /\ work.tab.has_row_sign
    /\ At(work.tab.row_sign, work.tab.n_row - 1) = isl_tab_row_neg
    /\ At(work.tab.mat, work.tab.n_row - 1).c < 0


(***************************************************************************)
(* Main tableaux with rows that share their parametric constant: one       *)
(* parameter p, one output x, a lower bound and two upper bounds of x.     *)
(***************************************************************************)
MaxSignShift == 2

SignSystems ==
    {<<<<-l, -1, 1>>, <<u, b, -1>>, <<v, e, -d>>>> :
        l \in {-1, 0}, u \in -MaxSignShift..1, b \in {1, 2},
        v \in -MaxSignShift..1, e \in {1, 2, 3}, d \in {1, 2}}

InitSign ==
    /\ PipQuiet
    /\ ValOff
    /\ work \in {WorkMain(sys) : sys \in SignSystems}

NextSign ==
    \/ tab_add_ineq \/ tab_built
    \/ restore_first_neg \/ restore_pivot \/ restore_return
    \/ work_signs \/ work_integer

SpecSign == InitSign /\ [][NextSign]_vars

(***************************************************************************)
(* The shortcut of row_sign through a row with the same parameter line.    *)
(***************************************************************************)
\* the calls of row_sign that the loop of find_solutions makes from the
\* given row on: the main tableau, the context, the row, the result and the
\* context left of each call
RECURSIVE SignCalls(_, _, _)
SignCalls(tab, ctx, row) ==
    IF row >= tab.n_row THEN {}
    ELSE IF ~isl_tab_var_from_row(tab, row).is_nonneg
    THEN SignCalls(tab, ctx, row + 1)
    ELSE Bind(row_sign(tab, ctx, row), LAMBDA rs :
            {[tab |-> tab, ctx |-> ctx, row |-> row, sgn |-> rs.sgn,
              left |-> rs.ctx]}
            \cup IF rs.sgn \in {0, isl_tab_row_neg} THEN {}
                 ELSE SignCalls([tab EXCEPT !.row_sign =
                                    Upd(tab.row_sign, row, rs.sgn)],
                                rs.ctx, row + 1))

\* the calls made in the current state
SignCallsNow ==
    IF At_pc("signs")
    THEN SignCalls(Top.tab, sol.context_tab, Top.tab.n_redundant)
    ELSE IF work.pc = "signs"
    THEN SignCalls(work.tab, work.ctx, work.tab.n_redundant)
    ELSE {}

\* the call does not return through the stored sign or the obvious sign
PastObvious(c) ==
    /\ At(c.tab.row_sign, c.row) = isl_tab_row_unknown
    /\ ~is_obviously_nonneg(c.tab, c.row)

\* the rows have the same constant and the same coefficients of the
\* parameters and divs
SameParameterLine(tab, row1, row2) ==
    get_row_parameter_line(tab, row1) = get_row_parameter_line(tab, row2)

\* the rows with a known sign and the parameter line of the row, the
\* coefficient of the big parameter ignored or not
KnownWithLine(tab, row, withM) ==
    {row2 \in tab.n_redundant..(tab.n_row - 1) :
        /\ At(tab.row_sign, row2) # isl_tab_row_unknown
        /\ SameParameterLine(tab, row, row2)
        /\ withM => At(tab.mat, row).m = At(tab.mat, row2).m}

\* C25 as stated: the shortcut of row_sign compares the constant and the
\* coefficients of the parameters and divs only, and ignores the
\* coefficient of the big parameter: a row of unknown sign gets the known
\* sign of the first row that agrees with it on these
C25_IgnoresM ==
    \A c \in SignCallsNow :
        PastObvious(c) /\ KnownWithLine(c.tab, c.row, FALSE) # {} =>
            c.sgn = At(c.tab.row_sign,
                       Least(KnownWithLine(c.tab, c.row, FALSE)))

\* C25: the shortcut of row_sign compares the constant, the coefficient of
\* the big parameter and the coefficients of the parameters and divs: a
\* row of unknown sign gets the known sign of the first row that agrees
\* with it on all of these, and where no row does its sign is computed in
\* the context
C25_ComparesM ==
    \A c \in SignCallsNow :
        PastObvious(c) =>
            IF KnownWithLine(c.tab, c.row, TRUE) # {}
            THEN c.sgn = At(c.tab.row_sign,
                            Least(KnownWithLine(c.tab, c.row, TRUE)))
            ELSE c.sgn = RowSignContext(c.tab, c.ctx, c.row).sgn

\* a call returns the sign of another row with the same line
C25_Witness ==
    \E c \in SignCallsNow :
        /\ PastObvious(c)
        /\ KnownWithLine(c.tab, c.row, TRUE) # {}

\* a call finds a row of known sign that differs from its row in the
\* coefficient of the big parameter only, and returns another sign
C25_WitnessM ==
    \E c \in SignCallsNow :
        /\ PastObvious(c)
        /\ KnownWithLine(c.tab, c.row, TRUE) = {}
        /\ KnownWithLine(c.tab, c.row, FALSE) # {}
        /\ c.sgn # At(c.tab.row_sign,
                      Least(KnownWithLine(c.tab, c.row, FALSE)))


(***************************************************************************)
(* The sign row_sign computes in the context, against the integer points   *)
(* of the context.                                                         *)
(***************************************************************************)
\* the values of the parameter looked at: wide enough to hold a point of
\* either sign of every row of the families, where there is one
MaxSignPoint == 8

SignPoints == {<<p>> : p \in -MaxSignPoint..MaxSignPoint}

\* the call decides by the samples and the feasibility tests
ByContext(c) == PastObvious(c) /\ IdenticalRows(c.tab, c.row) = {}

\* the values of the parametric constant of the row of the call at the
\* integer points of its context
LineValues(c) ==
    {ValueAt(get_row_parameter_line(c.tab, c.row),
             ExtPoint(c.ctx.bset, ps)) :
        ps \in {q \in SignPoints : InBset(c.ctx.bset, q)}}

\* zero counts as positive for the row of the call
ZeroIsPos(c) ==
    \/ is_critical(c.tab, c.row)
    \/ is_strict(get_row_parameter_ineq(c.tab, c.row))

SomeNegative(c) == \E v \in LineValues(c) : v < 0

SomePositive(c) == \E v \in LineValues(c) : v > 0 \/ (v = 0 /\ ZeroIsPos(c))

\* C26: row_sign is sound with respect to the context: where it decides by
\* the samples and a feasibility test it returns pos only if no integer
\* point of the context makes the parametric constant of the row negative,
\* neg only if some point makes it negative and none makes it positive
\* (zero counting as positive for a row that is critical or strict), and
\* any only if both kinds of point exist; it returns no unknown sign where
\* it succeeds and it leaves the constraints of the context as it found
\* them
C26_RowSignSound ==
    \A c \in SignCallsNow :
        ByContext(c) /\ ~c.left.null =>
            /\ c.sgn \in {isl_tab_row_pos, isl_tab_row_neg, isl_tab_row_any}
            /\ c.sgn = isl_tab_row_pos => ~SomeNegative(c)
            /\ c.sgn = isl_tab_row_neg =>
                  SomeNegative(c) /\ ~SomePositive(c)
            /\ c.sgn = isl_tab_row_any =>
                  SomeNegative(c) /\ SomePositive(c)
            /\ c.left.bset = c.ctx.bset

\* a call that decides neg in a context with points, by a test in which
\* zero does not count as positive
C26_Witness ==
    \E c \in SignCallsNow :
        /\ ByContext(c) /\ ~c.left.null
        /\ c.sgn = isl_tab_row_neg
        /\ Len(c.ctx.bset.ineq) >= 1

\* a call that decides pos, and one that decides any from two tests
C26_WitnessPos ==
    \E c \in SignCallsNow :
        /\ ByContext(c) /\ ~c.left.null
        /\ c.sgn = isl_tab_row_pos
        /\ LineValues(c) # {}

C26_WitnessAny ==
    \E c \in SignCallsNow :
        /\ ByContext(c) /\ ~c.left.null
        /\ c.sgn = isl_tab_row_any
        /\ c.left.n_sample > c.ctx.n_sample


(***************************************************************************)
(* The cache of sample points of the context.                              *)
(***************************************************************************)
\* the positions of the live samples
LiveRange(ctx) == ctx.n_outside..(ctx.n_sample - 1)

\* each live sample satisfies every constraint of the basic set of the
\* context
LiveSamplesOK(ctx) ==
    \A i \in LiveRange(ctx) :
        /\ \A k \in 1..Len(ctx.bset.ineq) :
              SampleSatisfies(ctx, At(ctx.samples, i), ctx.bset.ineq[k],
                              FALSE)
        /\ \A k \in 1..Len(ctx.bset.eq) :
              SampleSatisfies(ctx, At(ctx.samples, i), ctx.bset.eq[k], TRUE)

\* the context at the call of sol->add in no_sol_in_strict: the strict
\* inequality is in it and the samples have not been checked against it
NoSolContext(s, ineq) ==
    context_valid_sample_or_feasible(
        add_lexmin_ineq(isl_tab_snap(s.context_tab), SubOne(ineq)),
        SubOne(ineq), FALSE).tab

\* the contexts in which the step of the current state calls sol->add from
\* no_sol_in_strict
NoSolContextsNow ==
    IF phase = "run" /\ ~sol.null /\ Top.pc = "main"
       /\ ParamRows(Top.tab) # {}
    THEN Bind(ParamRowEq(Top.tab, Least(ParamRows(Top.tab))), LAMBDA eq :
         Bind(no_sol_in_strict(sol, Top.tab, eq, <<>>).sol, LAMBDA s1 :
         {NoSolContext(sol, eq)}
         \cup IF s1.null THEN {}
              ELSE {NoSolContext(s1, isl_seq_neg(eq))}))
    ELSE IF At_pc("integer") /\ ~sol.null /\ ~Top.tab.rational
            /\ CutRow >= 0
            /\ ~I_PAR(Top.tab, CutRow) /\ I_VAR(Top.tab, CutRow)
    THEN Bind(get_div(Top.tab, sol.context_tab,
                      get_row_split_div(Top.tab, CutRow)), LAMBDA g :
         IF g.d < 0 THEN {}
         ELSE {NoSolContext([sol EXCEPT !.context_tab = g.ctx],
                            ineq_for_div(g.ctx.bset, g.ctx.n_var, g.d))})
    ELSE {}

\* the inequalities check_samples is tried on
MaxCheckCoef == 1

CheckIneqs(n) == [1..(1 + n) -> -MaxCheckCoef..MaxCheckCoef]

\* the number of live samples of the context equal to v
LiveCount(ctx, v) ==
    Cardinality({i \in LiveRange(ctx) : At(ctx.samples, i) = v})

\* check_samples drops the live samples that violate ineq and no other
DropsExactly(ctx, ineq, eq) ==
    \E t \in {check_samples(ctx, ineq, eq)} :
        /\ t.n_sample = ctx.n_sample
        /\ t.n_outside >= ctx.n_outside
        /\ t.n_outside <= t.n_sample
        /\ \A i \in LiveRange(t) :
              SampleSatisfies(t, At(t.samples, i), ineq, eq)
        /\ \A i \in LiveRange(ctx) :
              LiveCount(t, At(ctx.samples, i))
                 = IF SampleSatisfies(ctx, At(ctx.samples, i), ineq, eq)
                   THEN LiveCount(ctx, At(ctx.samples, i)) ELSE 0
        /\ [t EXCEPT !.samples = ctx.samples, !.n_outside = ctx.n_outside]
              = ctx

CheckSamplesExact ==
    phase = "run" /\ ~sol.null /\ ~sol.context_tab.null =>
        \A ineq \in CheckIneqs(sol.context_tab.n_var), eq \in BOOLEAN :
            DropsExactly(sol.context_tab, ineq, eq)

\* the live samples satisfy the context in every state of a run
SamplesInContext ==
    phase = "run" /\ ~sol.null /\ ~sol.context_tab.null =>
        /\ sol.context_tab.n_outside <= sol.context_tab.n_sample
        /\ LiveSamplesOK(sol.context_tab)

\* the same at the calls of sol->add in no_sol_in_strict
SamplesInNoSolContext ==
    \A c \in NoSolContextsNow : ~c.null => LiveSamplesOK(c)


\* C27 as stated: at every entry to the main loop of find_solutions and at
\* every call of sol->add each live sample (rows n_outside..n_sample-1)
\* satisfies every constraint that is in the context; check_samples drops
\* exactly the live samples that violate ineq (or are not zero on it when
\* eq is set), keeps all others and keeps n_outside <= n_sample
C27_SampleCacheAlways ==
    /\ SamplesInContext
    /\ SamplesInNoSolContext
    /\ CheckSamplesExact

\* C27: in every state of a run each live sample satisfies every
\* constraint of the context, and so at every entry to the main loop of
\* find_solutions and at every call of sol->add on a main tableau; at the
\* call of sol->add in no_sol_in_strict the live samples satisfy every
\* constraint but the strict inequality that was added last, against which
\* they are not checked; check_samples drops exactly the live samples that
\* violate ineq (or are not zero on it when eq is set), keeps all others
\* and keeps n_outside <= n_sample
C27_SampleCache ==
    /\ SamplesInContext
    /\ \A c \in NoSolContextsNow :
          ~c.null =>
              /\ c.n_outside <= c.n_sample
              /\ Len(c.bset.ineq) >= 1
              /\ LiveSamplesOK([c EXCEPT !.bset.ineq =
                                   SubSeq(@, 1, Len(@) - 1)])
    /\ CheckSamplesExact

\* a context with two live samples, of which check_samples drops the
\* second for some inequality
C27_Witness ==
    /\ phase = "run" /\ ~sol.null /\ ~sol.context_tab.null
    /\ Len(sol.context_tab.bset.ineq) >= 1
    /\ sol.context_tab.n_sample >= sol.context_tab.n_outside + 2
    /\ \E ineq \in CheckIneqs(sol.context_tab.n_var) :
          /\ SampleSatisfies(sol.context_tab,
                             At(sol.context_tab.samples,
                                sol.context_tab.n_outside), ineq, FALSE)
          /\ ~SampleSatisfies(sol.context_tab,
                              At(sol.context_tab.samples,
                                 sol.context_tab.n_outside + 1), ineq, FALSE)

\* a call of sol->add in no_sol_in_strict with a live sample that violates
\* the strict inequality
C27_WitnessNoSol ==
    \E c \in NoSolContextsNow : ~c.null /\ ~LiveSamplesOK(c)

\* a leaf is handed over for a main tableau in a context with live samples
\* and constraints
C27_WitnessLeaf ==
    /\ At_pc("done") /\ ~sol.null /\ ~sol.context_tab.null
    /\ sol.context_tab.n_sample > sol.context_tab.n_outside
    /\ sol.context_tab.n_outside >= 1
    /\ Len(sol.context_tab.bset.ineq) >= 1


(***************************************************************************)
(* Basic maps whose second output is bounded below by the first: the cut   *)
(* for the second output is made in a context that has the div of the      *)
(* first.                                                                  *)
(***************************************************************************)
MaxDivCst == 1

\* m x >= p + c1 and 2 y >= x + b p + c2
DivProblems ==
    {Bmap(2, <<>>, <<<<-c1, -1, m, 0>>, <<-c2, -b, -1, 2>>>>) :
        c1 \in 0..MaxDivCst, c2 \in 0..MaxDivCst, m \in {2, 3},
        b \in {0, 1}}

InitDiv ==
    /\ bmap \in DivProblems
    /\ phase = "idle"
    /\ sol = NoSol
    /\ stack = <<>>
    /\ leaves = <<>>
    /\ result = NoResult
    /\ ub = {}
    /\ work = NoWork
    /\ tick = 0
    /\ ValOff

NextDiv ==
    \/ isl_tab_basic_map_partial_lexopt
    \/ isl_basic_map_foreach_lexopt
    \/ find_solutions_entry
    \/ find_solutions_signs
    \/ find_solutions_integral
    \/ find_solutions_split_div
    \/ find_solutions_parametric_cut
    \/ find_solutions_done
    \/ lexopt_return

SpecDiv == InitDiv /\ [][NextDiv]_vars

(***************************************************************************)
(* The main tableau and the context name the same parameters and divs.     *)
(***************************************************************************)
\* the positions at which find_solutions reads a parameter line or calls
\* sol->add
ReadsContext ==
    /\ phase = "run" /\ ~sol.null /\ ~sol.context_tab.null
    /\ ~Top.tab.null
    /\ Top.pc \in {"main", "signs", "integer", "done"}

\* the variables of the context are the parameters and divs of the main
\* tableau, in their order
Aligned(tab, ctx) ==
    /\ tab.n_param + tab.n_div = ctx.n_var
    /\ ctx.bset.n_div = tab.n_div
    /\ Len(ctx.bset.div) = tab.n_div
    /\ \A row \in 0..(tab.n_row - 1) :
          Len(get_row_parameter_line(tab, row)) = 1 + ctx.n_var
    /\ \A d \in 0..(tab.n_div - 1) :
          /\ At(tab.var, tab.n_var - tab.n_div + d).frozen
          /\ At(ctx.var, tab.n_param + d).frozen
          /\ Len(At(ctx.bset.div, d)) = 2 + ctx.n_var

\* the div as the basic set of the context stores it once it has n
\* variables
PadDiv(div, n) == div \o Zeros(2 + n - Len(div))

\* the call of get_div that the step of the current state makes
GetDivCallsNow ==
    IF At_pc("integer") /\ ~sol.null /\ ~sol.context_tab.null
       /\ ~Top.tab.rational /\ CutRow >= 0 /\ ~I_PAR(Top.tab, CutRow)
    THEN {[tab |-> Top.tab, ctx |-> sol.context_tab,
           div |-> IF I_VAR(Top.tab, CutRow)
                   THEN get_row_split_div(Top.tab, CutRow)
                   ELSE get_row_parameter_div(Top.tab, CutRow)]}
    ELSE {}

\* get_div returns the index of the div it was asked for
NamesDiv(c) ==
    \E g \in {get_div(c.tab, c.ctx, c.div)} :
        g.d >= 0 =>
            /\ g.d < g.tab.n_div
            /\ Aligned(g.tab, g.ctx)
            /\ At(g.ctx.bset.div, g.d) = PadDiv(c.div, g.ctx.n_var)

\* C28: the main tableau and the context stay aligned: where
\* find_solutions reads a parameter line or calls sol->add, tab->n_param +
\* tab->n_div = context_tab->n_var and the basic set of the context has
\* tab->n_div divs, and the index that get_div returns names the div asked
\* for in the basic set of the context and in the last n_div variables of
\* the main tableau
C28_Aligned ==
    /\ ReadsContext => Aligned(Top.tab, sol.context_tab)
    /\ \A c \in GetDivCallsNow : NamesDiv(c)

\* the numbers of variables and divs agree where find_solutions reads a
\* parameter line or calls sol->add
C28_CountsAligned == ReadsContext => Aligned(Top.tab, sol.context_tab)

\* get_div returns the index of a div of the context that differs from
\* the div asked for in the coefficient of the last variable
C28_WrongDiv ==
    \E c \in GetDivCallsNow :
        \E g \in {get_div(c.tab, c.ctx, c.div)} :
            /\ g.d >= 0
            /\ At(g.ctx.bset.div, g.d) # PadDiv(c.div, g.ctx.n_var)
            /\ SubSeq(At(g.ctx.bset.div, g.d), 1, 1 + g.ctx.n_var)
                   = SubSeq(c.div, 1, 1 + g.ctx.n_var)

\* a call of get_div in a context that has a div already, for a div that
\* has a coefficient of that div
C28_Witness ==
    \E c \in GetDivCallsNow :
        /\ c.ctx.bset.n_div >= 1
        /\ get_div(c.tab, c.ctx, c.div).d >= 0
        /\ c.div[Len(c.div)] # 0

\* a call of get_div that finds the div in the context
C28_WitnessFound ==
    \E c \in GetDivCallsNow : find_div(c.ctx, c.div) >= 0

\* a call of sol->add after a split, with a div in context and tableau
C28_WitnessLeaf ==
    /\ ReadsContext /\ Top.pc = "done"
    /\ Top.tab.n_div >= 1
    /\ Len(stack) >= 2


(***************************************************************************)
(* find_solutions_main: the rows of the parameters and divs.               *)
(***************************************************************************)
\* the loop of find_solutions_main is at a row of a parameter or div
AtMainRow ==
    /\ phase = "run" /\ Top.pc = "main"
    /\ ~sol.null /\ ~Top.tab.null
    /\ ParamRows(Top.tab) # {}

\* the first such row, its variable and its equality
MainRow == Least(ParamRows(Top.tab))

MainRowVar == At(Top.tab.row_var, MainRow)

MainEq == ParamRowEq(Top.tab, MainRow)

\* the basic set with one more inequality
WithIneq(bset, ineq) == [bset EXCEPT !.ineq = Append(@, ineq)]

\* the step handles the row: a leaf without solution for each strict side
\* of the equality, the equality in the context, no live sample that
\* violates it, the row redundant
MainRowHandled ==
    /\ ~sol'.null /\ ~sol'.context_tab.null
    /\ Len(leaves') = Len(leaves) + 2
    /\ \E l1 \in {leaves'[Len(leaves) + 1]}, l2 \in {leaves'[Len(leaves) + 2]} :
          /\ l1.kind = "empty" /\ l2.kind = "empty"
          /\ l1.dom = WithIneq(sol.context_tab.bset, SubOne(MainEq))
          /\ l2.dom = WithIneq(sol.context_tab.bset,
                               SubOne(isl_seq_neg(MainEq)))
    /\ sol'.context_tab.bset
          = [sol.context_tab.bset EXCEPT !.eq = Append(@, MainEq)]
    /\ \A i \in LiveRange(sol'.context_tab) :
          SampleSatisfies(sol'.context_tab, At(sol'.context_tab.samples, i),
                          MainEq, TRUE)
    /\ \A i \in LiveRange(sol.context_tab) :
          SampleSatisfies(sol.context_tab, At(sol.context_tab.samples, i),
                          MainEq, TRUE)
             => LiveCount(sol'.context_tab, At(sol.context_tab.samples, i))
                   >= 1
    /\ Top'.tab.n_redundant = Top.tab.n_redundant + 1
    /\ At(Top'.tab.var, MainRowVar).is_redundant
    /\ At(Top'.tab.var, MainRowVar).is_row
    /\ At(Top'.tab.var, MainRowVar).index < Top'.tab.n_redundant
    /\ Cardinality(ParamRows(Top'.tab))
          = Cardinality(ParamRows(Top.tab)) - 1

\* the call ends with an error
MainGaveUp ==
    \/ sol'.null
    \/ sol'.context_tab.null
    \/ Top'.pc = "ret"

\* find_solutions starts in an empty context or on a main tableau without
\* a row of a parameter or div
MainDone ==
    (phase = "run" /\ ~sol.null /\ ~sol.context_tab.null /\ ~Top.tab.null
        /\ Top.pc \in {"entry", "signs", "done"})
    => sol.context_tab.empty \/ ParamRows(Top.tab) = {}

\* C29: before the main loop find_solutions_main handles every row of the
\* main tableau that is not redundant and whose variable is a parameter or
\* a div of the context: it records a leaf without solution for each
\* strict side (eq >= 1 and -eq >= 1), adds eq = 0 to the context, drops
\* the samples that do not satisfy it and marks the row redundant; so when
\* find_solutions starts, the context is empty or no row that is not
\* redundant has a variable of the context
C29_MainRows ==
    /\ [][AtMainRow => MainRowHandled \/ MainGaveUp]_vars
    /\ []MainDone

\* a row of a parameter was handled: the two leaves, the equality in the
\* context, and find_solutions about to start
C29_Witness ==
    /\ phase = "run" /\ ~sol.null /\ ~sol.context_tab.null
    /\ Top.pc = "main"
    /\ ParamRows(Top.tab) = {}
    /\ Top.tab.n_redundant >= 1
    /\ Len(sol.context_tab.bset.eq) >= 1
    /\ ~sol.context_tab.empty
    /\ Len(leaves) = 2
    /\ leaves[1].kind = "empty" /\ leaves[2].kind = "empty"
    /\ \E i \in LiveRange(sol.context_tab) : TRUE

\* the context became empty with the equality
C29_WitnessEmpty ==
    /\ phase = "run" /\ ~sol.null /\ ~sol.context_tab.null
    /\ Top.pc = "entry" /\ Len(stack) = 1
    /\ sol.context_tab.empty
    /\ Len(leaves) = 2


(***************************************************************************)
(* no_sol_in_strict: what it records and what it leaves.                   *)
(***************************************************************************)
\* the calls of no_sol_in_strict that the step of the current state makes:
\* the solution object, the main tableau and the vector of each
NoSolCallsNow ==
    IF AtMainRow
    THEN Bind(no_sol_in_strict(sol, Top.tab, MainEq, <<>>).sol, LAMBDA s1 :
         {[s |-> sol, tab |-> Top.tab, ineq |-> MainEq]}
         \cup IF s1.null THEN {}
              ELSE {[s |-> s1, tab |-> Top.tab,
                     ineq |-> isl_seq_neg(MainEq)]})
    ELSE IF At_pc("integer") /\ ~sol.null /\ ~sol.context_tab.null
            /\ ~Top.tab.rational /\ CutRow >= 0
            /\ ~I_PAR(Top.tab, CutRow) /\ I_VAR(Top.tab, CutRow)
    THEN Bind(get_div(Top.tab, sol.context_tab,
                      get_row_split_div(Top.tab, CutRow)), LAMBDA g :
         IF g.d < 0 THEN {}
         ELSE {[s |-> [sol EXCEPT !.context_tab = g.ctx], tab |-> g.tab,
                ineq |-> ineq_for_div(g.ctx.bset, g.ctx.n_var, g.d)]})
    ELSE {}

\* the call returns its solution object
NoSolReturns(c) == ~no_sol_in_strict(c.s, c.tab, c.ineq, <<>>).sol.null

\* C30: no_sol_in_strict(sol, tab, ineq) makes exactly one call of sol->add,
\* for a tableau flagged empty in the context cut down by ineq - 1 >= 0,
\* and where it returns its solution object the empty flag of the main
\* tableau, the vector ineq and the constraints of the context are as they
\* were at its entry
C30_NoSolInStrict ==
    \A c \in NoSolCallsNow :
        \E r \in {no_sol_in_strict(c.s, c.tab, c.ineq, <<>>)} :
            ~r.sol.null =>
                /\ Len(r.leaves) = 1
                /\ r.leaves[1].kind = "empty"
                /\ r.leaves[1].dom
                      = WithIneq(c.s.context_tab.bset, SubOne(c.ineq))
                /\ r.tab = c.tab
                /\ r.ineq = c.ineq
                /\ r.sol.context_tab.bset = c.s.context_tab.bset

\* a call in a context with constraints, on a main tableau that is not
\* empty, for a strict side that has integer points
C30_Witness ==
    \E c \in NoSolCallsNow :
        /\ NoSolReturns(c)
        /\ ~c.tab.empty
        /\ Len(c.s.context_tab.bset.ineq) >= 1
        /\ \E ps \in ParamPoints :
              InBset(WithIneq(c.s.context_tab.bset, SubOne(c.ineq)), ps)

=============================================================================
